---- MODULE Spec2Model ----
(***************************************************************************)
(* A model of terminal_manager: the re-entrant manager lock, the manager   *)
(* state machine and execution pipeline, the sensor update rules and the   *)
(* static checks of a collection.                                          *)
(*                                                                         *)
(* Python values are modelled as follows.  None is the string "None" for   *)
(* sensor values, keys and errors; an optional CommandOutput is a sequence *)
(* of length 0 (None) or 1.  A line of stdout is the sequence of the       *)
(* fields that line.split(separator) yields.                               *)
(***************************************************************************)
EXTENDS Integers, Sequences, FiniteSets, TLC

VARIABLES
    cmds,           \* command id -> the command object (configuration, output, error, sensors)
    sensor_commands,\* Collection.sensor_commands: the ids in list order
    action_commands,\* Collection.action_commands: the ids in list order
    last_op,        \* the operation the last step applied (observation only)
    check_result,   \* what Collection.check() did: "unchecked", "ok" or the error raised
    state,          \* Manager.state: online, connected, request, error, _request_timestamp
    now,            \* time()
    config,         \* the Manager constructor's options
    _locked,        \* asyncio.Lock._locked of Manager.lock
    _task,          \* AsyncRLock._task: the owner, or None
    _depth,         \* AsyncRLock._depth
    stack,          \* task -> its call stack of coroutine frames, innermost last
    ret,            \* task -> what its last finished call returned or raised
    _disconnector,  \* Manager._disconnector: the scheduled task, or None
    ops,            \* the number of operations started so far
    peer            \* a second manager: its command lists, its connection and its update

catalog_vars == <<cmds, sensor_commands, action_commands>>
manager_vars == <<state, now, config, _locked, _task, _depth, stack, ret, _disconnector, ops, peer>>
sensor_vars == <<cmds, sensor_commands, action_commands, last_op, check_result, manager_vars>>
vars == <<cmds, sensor_commands, action_commands, last_op, check_result, manager_vars>>

None == "None"
NoOutput == <<>>

----------------------------------------------------------------------------
(* Bounds of the model *)

\* the largest number of dynamic rows in one stdout
MaxRows == 2

\* the largest number of sensors one checked template requires
MaxRequired == 2

\* the number of operations callers start on the manager
MaxOps == 2

\* the clock stops here
MaxTime == 2

\* the number of commands callers insert into the collection
MaxCopies == 3

\* the number of calls of State and Event methods in the state specification
MaxCalls == 4

\* the largest number of subscribers of state.on_change
MaxSubscribers == 2

----------------------------------------------------------------------------
(* Sequence helpers *)

Range(s) == {s[i] : i \in 1..Len(s)}

RECURSIVE SeqsUpTo(_, _)
SeqsUpTo(S, n) ==
    IF n = 0 THEN {<<>>}
    ELSE LET shorter == SeqsUpTo(S, n - 1)
         IN  shorter \cup {Append(s, x) : s \in {q \in shorter : Len(q) = n - 1}, x \in S}

\* list.remove(x): drop the first element equal to x
RemoveFirst(s, x) ==
    LET idx == CHOOSE i \in 1..Len(s) : s[i] = x /\ \A j \in 1..(i - 1) : s[j] # x
    IN  SubSeq(s, 1, idx - 1) \o SubSeq(s, idx + 1, Len(s))

----------------------------------------------------------------------------
(* helpers.py, and the strings the model draws stdout from *)


\* str.strip()
strip(s) == IF s = " 7" THEN "7" ELSE s

\* slugify.slugify(name, separator="_"): lower-cases, so that two ids can
\* share one key
name_to_key(name) == IF name = "A" THEN "a" ELSE name

----------------------------------------------------------------------------
(* sensor.py *)

\* A sensor object.  kind is the class: "base" (Sensor), "text", "number",
\* "binary".  command_set, command_on and command_off name the control
\* commands, None when there is none.
NewSensor(key, kind, dynamic) ==
    [key |-> key, kind |-> kind, dynamic |-> dynamic, id |-> None,
     value |-> None, last_known_value |-> None, child_sensors |-> <<>>,
     command_set |-> None, command_on |-> None, command_off |-> None]

\* a sensor with control commands
Controllable(sensor, command_set, command_on, command_off) ==
    [sensor EXCEPT !.command_set = command_set, !.command_on = command_on,
                   !.command_off = command_off]

\* Sensor._render: no renderer callback in the modelled catalogs
_render(sensor, data) == strip(data)

\* _convert raised (ValueError)
ConvertFails(sensor, value_string) ==
    CASE sensor.kind = "text"   -> value_string = ""
      [] sensor.kind = "number" -> value_string \notin {"7", "12.0", "12"}
      [] sensor.kind = "binary" -> value_string \notin {"on", "off"}
      [] OTHER                  -> FALSE

\* Sensor._convert / TextSensor._convert / NumberSensor._convert:
\* int(float("12.0")) is 12; BinarySensor._convert without payloads: "on" is
\* one of TRUE_STRINGS, "off" one of FALSE_STRINGS
_convert(sensor, value_string) ==
    CASE sensor.kind = "number" /\ value_string = "12.0" -> "12"
      [] sensor.kind = "binary" /\ value_string = "on"   -> "True"
      [] sensor.kind = "binary" /\ value_string = "off"  -> "False"
      [] OTHER -> value_string

\* Sensor._validate of a value the caller wants to set: the exception it
\* raises, None when it returns.  The values are "7" and "12" (int), "True"
\* and "False" (bool) and "x" (str); no sensor has a minimum or a maximum.
Validate(sensor, value) ==
    CASE sensor.kind = "number" -> IF value \in {"7", "12", "True", "False"} THEN None ELSE "TypeError"
      [] sensor.kind = "binary" -> IF value \in {"True", "False"} THEN None ELSE "TypeError"
      [] sensor.kind = "text"   -> IF value = "x" THEN None ELSE "TypeError"
      [] OTHER                  -> None

\* mutant: command_set is the control command of every value
GetControlCommand_AlwaysSet(sensor, value) == sensor.command_set

\* Sensor._get_control_command / BinarySensor._get_control_command
_get_control_command(sensor, value) ==
    IF sensor.kind = "binary" /\ sensor.command_on # None /\ value = "True"
    THEN sensor.command_on
    ELSE IF sensor.kind = "binary" /\ sensor.command_off # None /\ value = "False"
    THEN sensor.command_off
    ELSE sensor.command_set

\* mutant: a successful reading does not set last_known_value
UpdateValue_NoLastKnown(sensor, data) ==
    IF data = None \/ ConvertFails(sensor, _render(sensor, data))
    THEN [sensor EXCEPT !.value = None]
    ELSE [sensor EXCEPT !.value = _convert(sensor, _render(sensor, data))]

\* mutant: a null or invalid reading also clears last_known_value
UpdateValue_ClearsLastKnown(sensor, data) ==
    IF data = None \/ ConvertFails(sensor, _render(sensor, data))
    THEN [sensor EXCEPT !.value = None, !.last_known_value = None]
    ELSE [sensor EXCEPT !.value = _convert(sensor, _render(sensor, data)),
                        !.last_known_value = _convert(sensor, _render(sensor, data))]

\* Sensor._update_value, for data that is a string or None
_update_value(sensor, data) ==
    IF data = None
    THEN [sensor EXCEPT !.value = None]
    ELSE LET value_string == _render(sensor, data)
         IN  IF ConvertFails(sensor, value_string)
             THEN [sensor EXCEPT !.value = None]
             ELSE [sensor EXCEPT !.value = _convert(sensor, value_string),
                                 !.last_known_value = _convert(sensor, value_string)]

\* command.py DynamicData.__init__
DynamicData(sensor, id_field, data_field) ==
    [id |-> strip(id_field),
     key |-> sensor.key \o "_" \o name_to_key(strip(id_field)),
     data |-> data_field]

\* Sensor._make_child: dataclasses.replace runs __post_init__, so the child
\* starts with value = last_known_value = None and no children
_make_child(sensor, dynamic_data) ==
    [NewSensor(dynamic_data.key, sensor.kind, FALSE) EXCEPT !.id = dynamic_data.id]

child_sensors_by_key(sensor) == {sensor.child_sensors[i].key : i \in 1..Len(sensor.child_sensors)}

\* Sensor.update of a static sensor; rows is TRUE when data is a list
\* (data.strip() then raises and the value becomes None)
StaticUpdate(sensor, data, is_rows) ==
    IF is_rows
    THEN [sensor EXCEPT !.child_sensors = <<>>, !.value = None]
    ELSE _update_value([sensor EXCEPT !.child_sensors = <<>>], data)

\* first loop of _update_child_sensors: add the missing children
RECURSIVE AddChildren(_, _, _)
AddChildren(sensor, children, data) ==
    IF data = <<>> THEN children
    ELSE LET dynamic_data == Head(data)
         IN  IF dynamic_data.key \in {children[i].key : i \in 1..Len(children)}
             THEN AddChildren(sensor, children, Tail(data))
             ELSE AddChildren(sensor, Append(children, _make_child(sensor, dynamic_data)), Tail(data))

\* dynamic_data_by_key: a dict comprehension, the last row of a key wins
DataOfKey(data, key) ==
    LET idx == CHOOSE i \in 1..Len(data) :
                   data[i].key = key /\ \A j \in (i + 1)..Len(data) : data[j].key # key
    IN  data[idx].data

\* second loop of _update_child_sensors: "for child in self.child_sensors"
\* walks the list by index while _remove_child shrinks it
RECURSIVE ReconcileChildren(_, _, _)
ReconcileChildren(children, i, data) ==
    IF i > Len(children) THEN children
    ELSE LET child == children[i]
         IN  IF child.key \in {data[j].key : j \in 1..Len(data)}
             THEN ReconcileChildren(
                      [children EXCEPT ![i] = StaticUpdate(child, DataOfKey(data, child.key), FALSE)],
                      i + 1, data)
             ELSE ReconcileChildren(RemoveFirst(children, child), i + 1, data)

\* Sensor._update_child_sensors; has_data is FALSE when data is None
_update_child_sensors(sensor, data, has_data) ==
    IF ~has_data
    THEN [sensor EXCEPT !.child_sensors =
              [i \in 1..Len(sensor.child_sensors) |->
                   StaticUpdate(sensor.child_sensors[i], None, FALSE)]]
    ELSE [sensor EXCEPT !.child_sensors =
              ReconcileChildren(AddChildren(sensor, sensor.child_sensors, data), 1, data)]

\* Sensor.update.  data is [str |-> a string or None, rows |-> a list of
\* DynamicData, is_rows |-> whether the caller passed the list]
SensorUpdate(sensor, data) ==
    IF sensor.dynamic
    THEN _update_child_sensors(
             [sensor EXCEPT !.value = None, !.last_known_value = None],
             data.rows, data.is_rows)
    ELSE StaticUpdate(sensor, data.str, data.is_rows)

StrData(s) == [str |-> s, rows |-> <<>>, is_rows |-> FALSE]
RowsData(rows) == [str |-> None, rows |-> rows, is_rows |-> rows # <<>>]

----------------------------------------------------------------------------
(* command.py *)

PLACEHOLDER_KEY == "_"

\* "interval: int | None = None": should_update treats None and 0 alike
NoInterval == 0

\* A command object.  kind is the class: "plain" (Command), "action"
\* (ActionCommand), "sensor" (SensorCommand).  required_variables and
\* required_sensors are what the template's @{...} and &{...} name.
NewCommand(kind, key, required_variables, required_sensors, linked, interval, sensors) ==
    [kind |-> kind, key |-> key,
     required_variables |-> required_variables,
     required_sensors |-> required_sensors,
     _linked_sensors |-> linked,
     interval |-> interval,
     sensors |-> sensors,
     output |-> NoOutput, error |-> None]

CommandOutput(code, stdout, timestamp) ==
    <<[code |-> code, stdout |-> stdout, timestamp |-> timestamp]>>

\* the text of a line before line.split(separator)
RECURSIVE JoinFields(_)
JoinFields(fields) ==
    IF fields = <<>> THEN ""
    ELSE IF Len(fields) = 1 THEN fields[1]
    ELSE fields[1] \o "|" \o JoinFields(Tail(fields))

\* SensorCommand.sensors_by_key: the keys, children included, placeholders not
sensors_by_key(command) ==
    UNION {{command.sensors[i].key} \cup child_sensors_by_key(command.sensors[i]) :
               i \in {j \in 1..Len(command.sensors) : command.sensors[j].key # PLACEHOLDER_KEY}}

\* every sensor object of a command: its sensors and their children
SensorsOf(command) ==
    Range(command.sensors) \cup UNION {Range(sensor.child_sensors) : sensor \in Range(command.sensors)}

\* mutant: a sensor command's linked sensors keep the keys of its own sensors
LinkedSensors_Unfiltered(command) == command._linked_sensors

\* Command.linked_sensors / SensorCommand.linked_sensors (no modelled sensor
\* contributes linked sensors of its own)
linked_sensors(command) ==
    IF command.kind = "sensor"
    THEN {key \in command._linked_sensors : key \notin sensors_by_key(command)}
    ELSE command._linked_sensors

\* Command.sub_sensors
sub_sensors(command) == command.required_sensors \cup linked_sensors(command)

\* SensorCommand.clear_sensor_values
clear_sensor_values(command) ==
    [command EXCEPT !.sensors =
         [i \in 1..Len(command.sensors) |-> SensorUpdate(command.sensors[i], StrData(None))]]

\* Command.reset / SensorCommand.reset
reset(command) ==
    LET cleared == [command EXCEPT !.error = None, !.output = NoOutput]
    IN  IF command.kind = "sensor" THEN clear_sensor_values(cleared) ELSE cleared

\* the first index of a dynamic sensor, 0 when there is none (dyn_start)
DynStart(sensors) ==
    IF \E i \in 1..Len(sensors) : sensors[i].dynamic
    THEN CHOOSE i \in 1..Len(sensors) :
             sensors[i].dynamic /\ \A j \in 1..(i - 1) : ~sensors[j].dynamic
    ELSE 0

\* the list comprehension of update_sensors: the rows of the k-th dynamic
\* sensor (k counts from 0), rows with too few fields dropped
RECURSIVE DynRows(_, _, _, _)
DynRows(sensor, k, dyn_count, dyn_data) ==
    IF dyn_data = <<>> THEN <<>>
    ELSE LET fields == Head(dyn_data)
             rest == DynRows(sensor, k, dyn_count, Tail(dyn_data))
         IN  IF Len(fields) > dyn_count
             THEN <<DynamicData(sensor, fields[1], fields[k + 2])>> \o rest
             ELSE rest

\* the exit code test of update_sensors
CodeFailed(code) == code > 0

\* SensorCommand.update_sensors
update_sensors(command) ==
    IF command.output = NoOutput \/ CodeFailed(command.output[1].code)
    THEN clear_sensor_values(command)
    ELSE LET data == command.output[1].stdout
             sensors == command.sensors
             dyn_start == DynStart(sensors)
             dyn_count == Len(sensors) - dyn_start + 1
             dyn_data == SubSeq(data, dyn_start, Len(data))
         IN  [command EXCEPT !.sensors =
                 [i \in 1..Len(sensors) |->
                     IF dyn_start = 0 \/ i < dyn_start
                     THEN SensorUpdate(sensors[i],
                              StrData(IF Len(data) >= i THEN JoinFields(data[i]) ELSE None))
                     ELSE SensorUpdate(sensors[i],
                              RowsData(DynRows(sensors[i], i - dyn_start, dyn_count, dyn_data)))]]

\* command.handle_error(manager, exc), as manager.py calls it: the
\* assignments of Command.async_execute's except branch, then
\* SensorCommand's update_sensors
handle_error(command, exc) ==
    LET failed == [command EXCEPT !.error = exc, !.output = NoOutput]
    IN  IF command.kind = "sensor" THEN update_sensors(failed) ELSE failed

\* command.handle_success(manager, output), as manager.py calls it
handle_success(command, output) ==
    LET done == [command EXCEPT !.error = None, !.output = output]
    IN  IF command.kind = "sensor" THEN update_sensors(done) ELSE done

----------------------------------------------------------------------------
(* collection.py, and the checks of command.py *)

\* the collection held in the variables
Collection == [cmds |-> cmds, sensor_commands |-> sensor_commands, action_commands |-> action_commands]

\* Collection.commands
commands(coll) == coll.action_commands \o coll.sensor_commands

\* Collection.sensors_by_key, as the set of its keys
CollectionSensorKeys(coll) ==
    UNION {sensors_by_key(coll.cmds[c]) : c \in Range(coll.sensor_commands)}

\* Collection.sensor_commands_by_sensor_key[key]: a dict comprehension over
\* the list, so the last command that has the key owns it
get_sensor_command(coll, key) ==
    LET idx == CHOOSE i \in 1..Len(coll.sensor_commands) :
                   /\ key \in sensors_by_key(coll.cmds[coll.sensor_commands[i]])
                   /\ \A j \in (i + 1)..Len(coll.sensor_commands) :
                          key \notin sensors_by_key(coll.cmds[coll.sensor_commands[j]])
    IN  coll.sensor_commands[idx]

\* Collection.get_sensor: the sensor object of a key (a sensor or a child)
get_sensor(coll, key) ==
    CHOOSE sensor \in SensorsOf(coll.cmds[get_sensor_command(coll, key)]) : sensor.key = key

\* SensorCommand.remove_sensor: the sensor gives way to a placeholder
command_remove_sensor(command, key) ==
    [command EXCEPT !.sensors =
        [i \in 1..Len(command.sensors) |->
            IF command.sensors[i].key = key
            THEN NewSensor(PLACEHOLDER_KEY, "base", FALSE)
            ELSE command.sensors[i]]]

\* Collection.remove_sensor, for a key of the collection: the command goes
\* with its last sensor
remove_sensor(coll, key) ==
    LET c == get_sensor_command(coll, key)
        command == command_remove_sensor(coll.cmds[c], key)
    IN  [coll EXCEPT !.cmds[c] = command,
                     !.sensor_commands =
                         IF sensors_by_key(command) = {} THEN RemoveFirst(@, c) ELSE @]

\* the loop of add_sensor_command over the sensors of the copy
RECURSIVE RemoveSensorsOf(_, _, _)
RemoveSensorsOf(coll, sensors, i) ==
    IF i > Len(sensors) THEN coll
    ELSE RemoveSensorsOf(IF sensors[i].key \in CollectionSensorKeys(coll)
                         THEN remove_sensor(coll, sensors[i].key) ELSE coll,
                         sensors, i + 1)

\* copy.deepcopy: a copy has the fields of the original
deepcopy(command) == command

\* Collection.add_sensor_command, the copy being stored as c
add_sensor_command(coll, c, command) ==
    LET copy == deepcopy(command)
        cleared == RemoveSensorsOf(coll, copy.sensors, 1)
    IN  [cleared EXCEPT
            !.cmds = [d \in DOMAIN cleared.cmds \cup {c} |-> IF d = c THEN copy ELSE cleared.cmds[d]],
            !.sensor_commands = Append(@, c)]

\* Collection.action_commands_by_key, as the set of its keys
ActionKeys(coll) ==
    {coll.cmds[coll.action_commands[i]].key : i \in 1..Len(coll.action_commands)}

\* Collection.get_action_command: a dict comprehension over the list, so the
\* last command that has the key
get_action_command(coll, key) ==
    LET idx == CHOOSE i \in 1..Len(coll.action_commands) :
                   /\ coll.cmds[coll.action_commands[i]].key = key
                   /\ \A j \in (i + 1)..Len(coll.action_commands) :
                          coll.cmds[coll.action_commands[j]].key # key
    IN  coll.action_commands[idx]

\* the == of a dataclass compares its fields, which output and error are not
SameFields(a, b) ==
    [a EXCEPT !.output = NoOutput, !.error = None] = [b EXCEPT !.output = NoOutput, !.error = None]

\* mutant: the command that has the key stays in the list
RemoveActionCommand_Keeps(coll, key) == coll

\* Collection.remove_action_command, for a key of the collection:
\* list.remove drops the first element equal to the command
remove_action_command(coll, key) ==
    LET command == coll.cmds[get_action_command(coll, key)]
        list == coll.action_commands
        idx == CHOOSE i \in 1..Len(list) :
                   /\ SameFields(coll.cmds[list[i]], command)
                   /\ \A j \in 1..(i - 1) : ~SameFields(coll.cmds[list[j]], command)
    IN  [coll EXCEPT !.action_commands = SubSeq(list, 1, idx - 1) \o SubSeq(list, idx + 1, Len(list))]

\* Collection.add_action_command, the copy being stored as c (no name is
\* modelled)
add_action_command(coll, c, command) ==
    LET copy == deepcopy(command)
        cleared == IF copy.key \in ActionKeys(coll)
                   THEN remove_action_command(coll, copy.key) ELSE coll
    IN  [cleared EXCEPT
            !.cmds = [d \in DOMAIN cleared.cmds \cup {c} |-> IF d = c THEN copy ELSE cleared.cmds[d]],
            !.action_commands = Append(@, c)]

\* mutant: insertion stores the object it was given
CopyOf_Same(original, new) == original

\* the object that copy.deepcopy(original) returns: a new one
CopyOf(original, new) == new

\* Collection.set_action_commands / set_sensor_commands from the i-th command
\* of a list on, the copy of c being stored as "m:" c
RECURSIVE SetActionCommands(_, _, _)
SetActionCommands(coll, list, i) ==
    IF i > Len(list) THEN coll
    ELSE SetActionCommands(add_action_command(coll, CopyOf(list[i], "m:" \o list[i]), coll.cmds[list[i]]),
                           list, i + 1)

RECURSIVE SetSensorCommands(_, _, _)
SetSensorCommands(coll, list, i) ==
    IF i > Len(list) THEN coll
    ELSE SetSensorCommands(add_sensor_command(coll, CopyOf(list[i], "m:" \o list[i]), coll.cmds[list[i]]),
                           list, i + 1)

\* detect_loop of Command.check.  visited is the list "commands" that all
\* calls share.  The result is [raised, visited].  The keys of a set are
\* walked in one order; since the list is never shortened, whether an error
\* is raised does not depend on the order.
RECURSIVE detect_loop(_, _, _)
RECURSIVE DetectLoopKeys(_, _, _, _)
DetectLoopKeys(coll, keys, sub_commands, visited) ==
    IF keys = {} THEN [raised |-> FALSE, visited |-> visited]
    ELSE LET key == CHOOSE k \in keys : TRUE
         IN  IF key \notin CollectionSensorKeys(coll)
             THEN [raised |-> TRUE, visited |-> visited]
             ELSE LET sub_command == get_sensor_command(coll, key)
                  IN  IF sub_command \in visited
                      THEN [raised |-> TRUE, visited |-> visited]
                      ELSE IF sub_command \notin sub_commands
                      THEN LET sub == detect_loop(coll, sub_command, visited)
                           IN  IF sub.raised THEN sub
                               ELSE DetectLoopKeys(coll, keys \ {key},
                                        sub_commands \cup {sub_command}, sub.visited)
                      ELSE DetectLoopKeys(coll, keys \ {key}, sub_commands, visited)

detect_loop(coll, command, visited) ==
    DetectLoopKeys(coll, sub_sensors(coll.cmds[command]), {}, visited \cup {command})

\* mutant: the loop detection finds nothing
CommandCheckRaises_Never(coll, command) == FALSE

\* Command.check raises (no renderer in the modelled catalogs)
CommandCheckRaises(coll, command) == detect_loop(coll, command, {}).raised

\* the ordering test of SensorCommand.check: a static sensor after a dynamic one
MustBeDynamic(command) ==
    \E i, j \in 1..Len(command.sensors) :
        i < j /\ command.sensors[i].dynamic /\ ~command.sensors[j].dynamic

\* Command.check / SensorCommand.check raises
CheckRaises(coll, command) ==
    \/ coll.cmds[command].kind = "sensor" /\ MustBeDynamic(coll.cmds[command])
    \/ CommandCheckRaises(coll, command)

\* Collection.check raises
CollectionCheckRaises(coll) ==
    \E i \in 1..Len(commands(coll)) : CheckRaises(coll, commands(coll)[i])

----------------------------------------------------------------------------
(* state.py *)

TURN_ON == "turn_on"
TURN_OFF == "turn_off"
RESTART == "restart"
CONNECT == "connect"

\* State.__setattr__ for request: the timestamp moves only when the value changes
SetRequest(st, request, time) ==
    IF st.request = request THEN st
    ELSE [st EXCEPT !.request = request, !._request_timestamp = time]

starting_up(st) == st.request \in {TURN_ON, CONNECT}
shutting_down(st) == st.request \in {TURN_OFF, RESTART}

\* mutant: a request expires as soon as its timeout has passed
RequestExpired_AtTimeout(st, time) ==
    st.request # None /\ time - st._request_timestamp >= config.request_timeouts[st.request]

\* State.request_expired
request_expired(st, time) ==
    st.request # None /\ time - st._request_timestamp > config.request_timeouts[st.request]

\* mutant: a failed ping leaves the host online
HandlePingError_KeepsOnline(st, time) ==
    LET s1 == IF st.request = TURN_OFF THEN SetRequest(st, None, time) ELSE st
    IN  IF s1.request = RESTART THEN SetRequest(s1, TURN_ON, time) ELSE s1

\* mutant: update leaves the error flag set
StateUpdate_KeepsError(st, time) ==
    IF request_expired(st, time) THEN SetRequest(st, None, time) ELSE st

\* mutant: update changes nothing
StateUpdate_Nothing(st, time) == st

\* State.update
state_update(st, time) ==
    LET cleared == [st EXCEPT !.error = FALSE]
    IN  IF request_expired(cleared, time) THEN SetRequest(cleared, None, time) ELSE cleared

\* mutant: the two ifs of handle_ping_error in the other order, so that a
\* Restart request falls through to none
HandlePingError_RestartToNone(st, time) ==
    LET a == IF st.request = RESTART THEN SetRequest(st, TURN_OFF, time) ELSE st
        b == IF a.request = TURN_OFF THEN SetRequest(a, None, time) ELSE a
    IN  [b EXCEPT !.online = FALSE]

handle_ping_error(st, time) ==
    LET s1 == IF st.request = TURN_OFF THEN SetRequest(st, None, time) ELSE st
        s2 == IF s1.request = RESTART THEN SetRequest(s1, TURN_ON, time) ELSE s1
    IN  [s2 EXCEPT !.online = FALSE]

\* mutant: a successful ping ends a TurnOn request
HandlePingSuccess_ClearsTurnOn(st, time) ==
    [(IF st.request = TURN_ON THEN SetRequest(st, None, time) ELSE st) EXCEPT !.online = TRUE]

handle_ping_success(st, time) ==
    [(IF st.request = TURN_ON THEN SetRequest(st, CONNECT, time) ELSE st) EXCEPT !.online = TRUE]

\* mutant: a failed connect is not recorded on the state
HandleConnectError_Ignored(st) == st

handle_connect_error(st) == [st EXCEPT !.error = TRUE]

handle_connect_success(st, time) ==
    [(IF st.request = CONNECT THEN SetRequest(st, None, time) ELSE st) EXCEPT !.connected = TRUE]

\* mutant: an execution error is not recorded on the state
HandleExecuteError_Ignored(st) == st

handle_execute_error(st) == [st EXCEPT !.error = TRUE]

\* mutant: a disconnect is not recorded on the state
HandleDisconnect_Ignored(st) == st

handle_disconnect(st) == [st EXCEPT !.connected = FALSE]

handle_turn_on(st, time) == SetRequest(st, TURN_ON, time)

\* mutant: a turn-off is not recorded on the state
HandleTurnOff_Ignored(st, time) == st

handle_turn_off(st, time) == SetRequest(st, TURN_OFF, time)
handle_restart(st, time) == SetRequest(st, RESTART, time)

----------------------------------------------------------------------------
(* synchronizer.py *)

Tasks == {"t1", "t2"}
\* the tasks that asyncio.create_task makes for _async_disconnect_later
Disconnectors == {"d", "e"}
AllTasks == Tasks \cup Disconnectors

\* mutant: the mutex is taken only when the lock has no owner
NeedsMutex_OnlyWhenFree(t) == _task = None

\* mutant: the owner's nested acquire takes the mutex too
NeedsMutex_Always(t) == TRUE

\* AsyncRLock.acquire: "self._task is None or self._task != current_task()"
NeedsMutex(t) == _task = None \/ _task # t

\* asyncio.Lock.acquire returns at once only when the mutex is free
CanAcquire(t) == NeedsMutex(t) => ~_locked

\* mutant: release lets go of the mutex at any depth
DepthAfterRelease_Zero == IF _depth > 0 THEN 0 ELSE _depth

\* AsyncRLock.release: "if self._depth > 0: self._depth -= 1"
DepthAfterRelease == IF _depth > 0 THEN _depth - 1 ELSE _depth

----------------------------------------------------------------------------
(* manager.py: every coroutine is a frame on its task's stack.  A frame of *)
(* a Manager coroutine starts at "acq" (the wrapper of locked() is waiting *)
(* for the lock), runs from "run", and ends at "rel" with its result, where *)
(* the wrapper releases the lock and hands the result to the caller.       *)

NoResult ==
    [exc |-> None, why |-> None, output |-> NoOutput, errors |-> <<>>, sensors |-> <<>>,
     value |-> None]
Raised(exc, why) == [NoResult EXCEPT !.exc = exc, !.why = why]
Returned(output) == [NoResult EXCEPT !.output = output]

Frame(fn, is_locked) ==
    [fn |-> fn, pc |-> IF is_locked THEN "acq" ELSE "run", locked |-> is_locked,
     command |-> None, variables |-> {}, keys |-> <<>>, list |-> <<>>, i |-> 0,
     raise_errors |-> TRUE, flags |-> {}, res |-> NoResult,
     sensor |-> None, value |-> None, values |-> <<>>,
     \* history for the claims: the values the caller of set_sensor_values passed
     requested |-> <<>>,
     \* history for the claims: state.error when an update began,
     \* state.request when a turn_off or restart began or the transport's ping
     \* failed, and state.connected when an update began or the ping failed
     entry_error |-> FALSE, entry_request |-> None, entry_connected |-> FALSE]

Top(t) == stack[t][Len(stack[t])]
At(t, fn, pc) == stack[t] # <<>> /\ Top(t).fn = fn /\ Top(t).pc = pc
WithTop(t, frame) == [stack[t] EXCEPT ![Len(stack[t])] = frame]

\* the awaits that give control back to the event loop: the transport's
\* calls and asyncio.sleep
AwaitPoints ==
    {<<"async_ping", "run">>, <<"async_connect", "terminal">>, <<"async_disconnect", "terminal">>,
     <<"async_execute", "terminal">>, <<"_async_disconnect_later", "sleep">>}

\* a task that is between two awaits: the event loop runs nothing else
Running(t) ==
    /\ stack[t] # <<>>
    /\ Top(t).pc # "acq"
    /\ <<Top(t).fn, Top(t).pc>> \notin AwaitPoints

MayRun(t) == \A u \in AllTasks \ {t} : ~Running(u)

\* task t is scheduled at pc of fn
Runs(t, fn, pc) == At(t, fn, pc) /\ MayRun(t)

\* the stack after the top frame of t moved on, called, or finished
StackGoto(t, frame) == [stack EXCEPT ![t] = WithTop(t, frame)]
StackCallFrom(t, frame, callee) == [stack EXCEPT ![t] = Append(WithTop(t, frame), callee)]
StackCall(t, pc, callee) == StackCallFrom(t, [Top(t) EXCEPT !.pc = pc], callee)
StackPop(t) == [stack EXCEPT ![t] = SubSeq(@, 1, Len(@) - 1)]

Goto(t, pc) == stack' = StackGoto(t, [Top(t) EXCEPT !.pc = pc]) /\ ret' = ret
Call(t, pc, callee) == stack' = StackCall(t, pc, callee) /\ ret' = ret
Done(t, res) == [Top(t) EXCEPT !.pc = "rel", !.res = res]
Return(t, res) ==
    IF Top(t).locked
    THEN stack' = StackGoto(t, Done(t, res)) /\ ret' = ret
    ELSE stack' = StackPop(t) /\ ret' = [ret EXCEPT ![t] = res]
Raise(t, exc) == Return(t, Raised(exc, None))

\* what every step of a task leaves alone
Step(t) ==
    /\ last_op' = t
    /\ UNCHANGED <<sensor_commands, action_commands, check_result, now, config, ops, peer>>

lock_vars == <<_locked, _task, _depth>>

RECURSIVE SetToSeq(_)
SetToSeq(S) == IF S = {} THEN <<>> ELSE LET x == CHOOSE y \in S : TRUE IN <<x>> \o SetToSeq(S \ {x})

\* mutant: a command that occurs twice keeps the place of its last occurrence
RECURSIVE Unique_KeepsLast(_)
Unique_KeepsLast(s) ==
    IF s = <<>> THEN <<>>
    ELSE LET back == Unique_KeepsLast(Tail(s))
         IN  IF Head(s) \in Range(back) THEN back ELSE <<Head(s)>> \o back

\* mutant: a command that has an output is left out
RECURSIVE Unique_SkipsExecuted(_)
Unique_SkipsExecuted(s) ==
    IF s = <<>> THEN <<>>
    ELSE LET front == Unique_SkipsExecuted(SubSeq(s, 1, Len(s) - 1))
             last == s[Len(s)]
         IN  IF last \in Range(front) \/ cmds[last].output # <<>> THEN front ELSE Append(front, last)

\* "if command not in unique_commands: unique_commands.append(command)"
RECURSIVE Unique(_)
Unique(s) ==
    IF s = <<>> THEN <<>>
    ELSE LET front == Unique(SubSeq(s, 1, Len(s) - 1))
             last == s[Len(s)]
         IN  IF last \in Range(front) THEN front ELSE Append(front, last)

ExecuteErrors == {"ConnectError", "ExecutionError"}

\* the wrapper of locked(): "async with synchronizer.lock", AsyncRLock.acquire
Acquire(t) ==
    /\ stack[t] # <<>> /\ Top(t).pc = "acq" /\ MayRun(t)
    /\ CanAcquire(t)
    /\ IF NeedsMutex(t)
       THEN _locked' = TRUE /\ _task' = t
       ELSE UNCHANGED <<_locked, _task>>
    /\ _depth' = _depth + 1
    /\ Goto(t, "run")
    /\ Step(t)
    /\ UNCHANGED <<cmds, state, _disconnector>>

\* the end of the wrapper: AsyncRLock.release, then the result reaches the caller
Release(t) ==
    /\ stack[t] # <<>> /\ Top(t).pc = "rel" /\ MayRun(t)
    /\ _depth' = DepthAfterRelease
    /\ IF DepthAfterRelease = 0
       THEN _locked' = FALSE /\ _task' = None
       ELSE UNCHANGED <<_locked, _task>>
    /\ stack' = StackPop(t)
    /\ ret' = [ret EXCEPT ![t] = Top(t).res]
    /\ Step(t)
    /\ UNCHANGED <<cmds, state, _disconnector>>

\* mutant: a command is due whether or not it has an output
ShouldUpdate_IgnoresOutput(command, time) == command.error # "CommandError"

\* SensorCommand.should_update
should_update(command, time) ==
    IF command.output = NoOutput THEN command.error # "CommandError"
    ELSE IF command.interval = NoInterval THEN FALSE
    ELSE time - command.output[1].timestamp > command.interval

\* get_commands() of async_update
get_commands(flags) ==
    LET Due(c) == \/ "force" \in flags
                  \/ /\ should_update(cmds[c], now)
                     /\ ~("once" \in flags /\ cmds[c].output # NoOutput)
        due == SelectSeq(sensor_commands, Due)
    IN  IF "test" \in flags /\ ~config.disconnect_mode /\ due = <<>> THEN <<"TEST">> ELSE due

Batch(list, raise_errors) ==
    [Frame("async_execute_commands", TRUE) EXCEPT !.list = list, !.raise_errors = raise_errors]

\* async_update up to its first await
async_update(t) ==
    /\ Runs(t, "async_update", "run")
    /\ state' = state_update(state, now)
    /\ LET frame == [Top(t) EXCEPT !.entry_error = state.error,
                                   !.entry_connected = state.connected]
       IN  IF ~config.disconnect_mode /\ state.connected
           THEN stack' = StackCallFrom(t, [frame EXCEPT !.pc = "try"],
                                       Batch(get_commands(frame.flags), TRUE))
           ELSE stack' = StackCallFrom(t, [frame EXCEPT !.pc = "ping"], Frame("async_ping", TRUE))
    /\ ret' = ret
    /\ Step(t)
    /\ UNCHANGED <<cmds, lock_vars, _disconnector>>

\* async_update after the batch of the connected path
async_update_try(t) ==
    /\ Runs(t, "async_update", "try")
    /\ IF ret[t].exc = "ExecutionError"
       THEN IF ~state.error
            THEN Return(t, ret[t]) /\ state' = state
            ELSE /\ state' = state_update(state, now)
                 /\ Call(t, "ping", Frame("async_ping", TRUE))
       ELSE /\ Return(t, IF ret[t].exc # None THEN ret[t] ELSE NoResult)
            /\ state' = state
    /\ Step(t)
    /\ UNCHANGED <<cmds, lock_vars, _disconnector>>

async_update_ping(t) ==
    /\ Runs(t, "async_update", "ping")
    /\ IF ret[t].exc # None THEN Return(t, ret[t])
       ELSE IF ~config.disconnect_mode THEN Call(t, "connect", Frame("async_connect", TRUE))
       ELSE Call(t, "batch", Batch(get_commands(Top(t).flags), TRUE))
    /\ Step(t)
    /\ UNCHANGED <<cmds, state, lock_vars, _disconnector>>

async_update_connect(t) ==
    /\ Runs(t, "async_update", "connect")
    /\ IF ret[t].exc # None THEN Return(t, ret[t])
       ELSE Call(t, "batch", Batch(get_commands(Top(t).flags), TRUE))
    /\ Step(t)
    /\ UNCHANGED <<cmds, state, lock_vars, _disconnector>>

async_update_batch(t) ==
    /\ Runs(t, "async_update", "batch")
    /\ Return(t, IF ret[t].exc # None THEN ret[t] ELSE NoResult)
    /\ Step(t)
    /\ UNCHANGED <<cmds, state, lock_vars, _disconnector>>

\* async_ping: the transport's ping returns or raises OfflineError
async_ping(t) ==
    /\ Runs(t, "async_ping", "run")
    /\ \E ok \in BOOLEAN :
          IF ok
          THEN state' = handle_ping_success(state, now) /\ Return(t, NoResult)
          ELSE /\ state' = state
               /\ stack' = StackCallFrom(t, [Top(t) EXCEPT !.pc = "reset",
                                                           !.entry_connected = state.connected,
                                                           !.entry_request = state.request],
                                         Frame("async_reset", TRUE))
               /\ ret' = ret
    /\ Step(t)
    /\ UNCHANGED <<cmds, lock_vars, _disconnector>>

async_ping_reset(t) ==
    /\ Runs(t, "async_ping", "reset")
    /\ state' = handle_ping_error(state, now)
    /\ Raise(t, "OfflineError")
    /\ Step(t)
    /\ UNCHANGED <<cmds, lock_vars, _disconnector>>

\* Manager.can_connect
can_connect(st) == st.online /\ ~(shutting_down(st) \/ st.error)

\* mutant: connect does not refuse while the error flag is set
ConnectCheck_IgnoresError(st) ==
    IF st.connected THEN "return"
    ELSE IF ~st.online \/ shutting_down(st) THEN "ConnectError"
    ELSE "connect"

\* the checks of async_connect before the transport is called
ConnectCheck(st) ==
    IF st.connected THEN "return"
    ELSE IF ~st.online \/ shutting_down(st) \/ st.error THEN "ConnectError"
    ELSE "connect"

async_connect(t) ==
    /\ Runs(t, "async_connect", "run")
    /\ CASE ConnectCheck(state) = "return" -> Return(t, NoResult)
         [] ConnectCheck(state) = "ConnectError" -> Raise(t, "ConnectError")
         [] OTHER -> Goto(t, "terminal")
    /\ Step(t)
    /\ UNCHANGED <<cmds, state, lock_vars, _disconnector>>

\* the transport's connect returns or raises ConnectError
async_connect_terminal(t) ==
    /\ Runs(t, "async_connect", "terminal")
    /\ \E ok \in BOOLEAN :
          IF ok
          THEN state' = handle_connect_success(state, now) /\ Return(t, NoResult)
          ELSE state' = state /\ Call(t, "reset", Frame("async_reset", TRUE))
    /\ Step(t)
    /\ UNCHANGED <<cmds, lock_vars, _disconnector>>

async_connect_reset(t) ==
    /\ Runs(t, "async_connect", "reset")
    /\ state' = handle_connect_error(state)
    /\ Raise(t, "ConnectError")
    /\ Step(t)
    /\ UNCHANGED <<cmds, lock_vars, _disconnector>>

async_disconnect(t) ==
    /\ Runs(t, "async_disconnect", "run")
    /\ IF ~state.connected THEN Return(t, NoResult) ELSE Goto(t, "terminal")
    /\ Step(t)
    /\ UNCHANGED <<cmds, state, lock_vars, _disconnector>>

\* the transport's disconnect returns
async_disconnect_terminal(t) ==
    /\ Runs(t, "async_disconnect", "terminal")
    /\ state' = handle_disconnect(state)
    /\ Return(t, NoResult)
    /\ Step(t)
    /\ UNCHANGED <<cmds, lock_vars, _disconnector>>

async_reset(t) ==
    /\ Runs(t, "async_reset", "run")
    /\ Call(t, "disconnect", Frame("async_disconnect", TRUE))
    /\ Step(t)
    /\ UNCHANGED <<cmds, state, lock_vars, _disconnector>>

\* "for command in self.commands: command.reset(self)"
async_reset_commands(t) ==
    /\ Runs(t, "async_reset", "disconnect")
    /\ cmds' = [c \in DOMAIN cmds |->
                   IF c \in Range(commands(Collection)) THEN reset(cmds[c]) ELSE cmds[c]]
    /\ Return(t, NoResult)
    /\ Step(t)
    /\ UNCHANGED <<state, lock_vars, _disconnector>>

\* the lines a remote host prints for a sensor of a class
Readings(kind) == IF kind = "binary" THEN {"on", "off"} ELSE {"12.0"}

\* what the transport can answer to a command: a line for each sensor or
\* nothing for a sensor command, an exit code for any other
Outputs(command) ==
    IF command # None /\ cmds[command].kind = "sensor"
    THEN LET sensors == cmds[command].sensors
             lines == {line \in [1..Len(sensors) -> {"12.0", "on", "off"}] :
                          \A i \in 1..Len(sensors) : line[i] \in Readings(sensors[i].kind)}
         IN  {CommandOutput(0, [i \in 1..Len(sensors) |-> <<line[i]>>], now) : line \in lines}
                 \cup {CommandOutput(0, <<>>, now)}
    ELSE {CommandOutput(code, <<>>, now) : code \in {0, 1}}

\* asyncio.create_task: a task that is not in use
NewTask(new_stack) ==
    IF \E d \in Disconnectors : new_stack[d] = <<>>
    THEN CHOOSE d \in Disconnectors : new_stack[d] = <<>>
    ELSE "d"

\* mutant: no task is created
ScheduleDisconnect_Nothing(new_stack) ==
    [stack |-> new_stack, _disconnector |-> _disconnector]

\* mutant: the scheduled task is not cancelled
ScheduleDisconnect_NoCancel(new_stack) ==
    LET task == NewTask(new_stack)
    IN  [stack |-> [new_stack EXCEPT ![task] = <<Frame("_async_disconnect_later", TRUE)>>],
         _disconnector |-> task]

\* _schedule_disconnect: "if self._disconnector: self._disconnector.cancel()"
\* ends the scheduled task, which is waiting for the lock its caller holds;
\* then a new task is created and stored
_schedule_disconnect(new_stack) ==
    LET cancelled == IF _disconnector # None
                     THEN [new_stack EXCEPT ![_disconnector] = <<>>]
                     ELSE new_stack
        task == NewTask(cancelled)
    IN  [stack |-> [cancelled EXCEPT ![task] = <<Frame("_async_disconnect_later", TRUE)>>],
         _disconnector |-> task]

\* the finally clause of async_execute, given the stack its try statement leaves
Finally(new_stack, st) ==
    IF config.disconnect_mode /\ st.connected
    THEN /\ stack' = _schedule_disconnect(new_stack).stack
         /\ _disconnector' = _schedule_disconnect(new_stack)._disconnector
    ELSE stack' = new_stack /\ _disconnector' = _disconnector

\* "if not self.state.connected: raise ExecutionError" and the start of the
\* transport call
ExecuteCheck(t) ==
    IF ~state.connected
    THEN Return(t, Raised("ExecutionError", "not_connected"))
    ELSE Goto(t, "terminal")

async_execute(t) ==
    /\ Runs(t, "async_execute", "run")
    /\ IF config.disconnect_mode
       THEN Call(t, "connect", Frame("async_connect", TRUE))
       ELSE ExecuteCheck(t)
    /\ Step(t)
    /\ UNCHANGED <<cmds, state, lock_vars, _disconnector>>

async_execute_connect(t) ==
    /\ Runs(t, "async_execute", "connect")
    /\ IF ret[t].exc # None THEN Return(t, ret[t]) ELSE ExecuteCheck(t)
    /\ Step(t)
    /\ UNCHANGED <<cmds, state, lock_vars, _disconnector>>

\* the transport's execute returns an output, times out, or raises
\* ExecutionError; "except TimeoutError: raise ExecutionError" leaves the try
\* statement, so the sibling "except ExecutionError" does not run for it
async_execute_terminal(t) ==
    /\ Runs(t, "async_execute", "terminal")
    /\ \E outcome \in {"output", "TimeoutError", "ExecutionError"} :
          CASE outcome = "output" ->
                 \E output \in Outputs(Top(t).command) :
                     /\ Finally(StackGoto(t, Done(t, Returned(output))), state)
                     /\ ret' = ret
            [] outcome = "TimeoutError" ->
                 /\ Finally(StackGoto(t, Done(t, Raised("ExecutionError", "timeout"))), state)
                 /\ ret' = ret
            [] OTHER ->
                 /\ Call(t, "reset", Frame("async_reset", TRUE))
                 /\ _disconnector' = _disconnector
    /\ Step(t)
    /\ UNCHANGED <<cmds, state, lock_vars>>

async_execute_reset(t) ==
    /\ Runs(t, "async_execute", "reset")
    /\ state' = handle_execute_error(state)
    /\ Finally(StackGoto(t, Done(t, Raised("ExecutionError", "transport"))), state')
    /\ ret' = ret
    /\ Step(t)
    /\ UNCHANGED <<cmds, lock_vars>>

\* mutant: a missing variable does not stop the rendering
SubstituteFails_Never(command, variables) == FALSE

\* VariableTemplate(string).substitute(variables) raises: a variable of the
\* template is missing
SubstituteFails(command, variables) == ~(command.required_variables \subseteq variables)

\* "if sensor.value is not None ... else raise CommandError" over the polled
\* sensors
SensorValueMissing(coll, command) ==
    \E key \in command.required_sensors : get_sensor(coll, key).value = None

\* Command.async_render_string up to its await: check, then the variables
async_render_string(t) ==
    /\ Runs(t, "async_render_string", "run")
    /\ LET command == cmds[Top(t).command]
       IN  IF CheckRaises(Collection, Top(t).command) THEN Raise(t, "CommandError")
           ELSE IF SubstituteFails(command, Top(t).variables)
           THEN Raise(t, "CommandError")
           ELSE Call(t, "poll", [Frame("async_poll_sensors", TRUE) EXCEPT
                                    !.keys = SetToSeq(command.required_sensors)])
    /\ Step(t)
    /\ UNCHANGED <<cmds, state, lock_vars, _disconnector>>

\* ... and after it: a required sensor without a value is a CommandError
async_render_string_poll(t) ==
    /\ Runs(t, "async_render_string", "poll")
    /\ IF ret[t].exc # None THEN Return(t, ret[t])
       ELSE IF SensorValueMissing(Collection, cmds[Top(t).command])
       THEN Raise(t, "CommandError")
       ELSE Return(t, NoResult)
    /\ Step(t)
    /\ UNCHANGED <<cmds, state, lock_vars, _disconnector>>

async_execute_command(t) ==
    /\ Runs(t, "async_execute_command", "run")
    /\ Call(t, "render", [Frame("async_render_string", FALSE) EXCEPT
                             !.command = Top(t).command, !.variables = Top(t).variables])
    /\ Step(t)
    /\ UNCHANGED <<cmds, state, lock_vars, _disconnector>>

async_execute_command_render(t) ==
    /\ Runs(t, "async_execute_command", "render")
    /\ IF ret[t].exc \in ExecuteErrors
       THEN /\ cmds' = [cmds EXCEPT ![Top(t).command] = handle_error(@, ret[t].exc)]
            /\ Return(t, ret[t])
       ELSE IF ret[t].exc # None
       THEN cmds' = cmds /\ Return(t, ret[t])
       ELSE /\ cmds' = cmds
            /\ Call(t, "execute", [Frame("async_execute", TRUE) EXCEPT !.command = Top(t).command])
    /\ Step(t)
    /\ UNCHANGED <<state, lock_vars, _disconnector>>

async_execute_command_execute(t) ==
    /\ Runs(t, "async_execute_command", "execute")
    /\ IF ret[t].exc \in ExecuteErrors
       THEN /\ cmds' = [cmds EXCEPT ![Top(t).command] = handle_error(@, ret[t].exc)]
            /\ Return(t, ret[t])
       ELSE /\ cmds' = [cmds EXCEPT ![Top(t).command] = handle_success(@, ret[t].output)]
            /\ stack' = StackCallFrom(t,
                            [Top(t) EXCEPT !.pc = "poll", !.res = Returned(ret[t].output)],
                            [Frame("async_poll_sensors", TRUE) EXCEPT
                                !.keys = SetToSeq(linked_sensors(cmds'[Top(t).command]))])
            /\ ret' = ret
    /\ Step(t)
    /\ UNCHANGED <<state, lock_vars, _disconnector>>

async_execute_command_poll(t) ==
    /\ Runs(t, "async_execute_command", "poll")
    /\ Return(t, IF ret[t].exc # None THEN ret[t] ELSE Top(t).res)
    /\ Step(t)
    /\ UNCHANGED <<cmds, state, lock_vars, _disconnector>>

ExecuteCommand(command, variables) ==
    [Frame("async_execute_command", TRUE) EXCEPT !.command = command, !.variables = variables]

\* the end of async_execute_commands: the errors the commands hold, the first
\* of them raised with raise_errors
BatchResult(list, raise_errors) ==
    LET errors == [k \in 1..Len(list) |-> cmds[list[k]].error]
    IN  IF raise_errors /\ \E k \in 1..Len(errors) : errors[k] # None
        THEN Raised(errors[CHOOSE k \in 1..Len(errors) :
                               errors[k] # None /\ \A j \in 1..(k - 1) : errors[j] = None], None)
        ELSE [NoResult EXCEPT !.errors = errors]

\* async_execute_commands: the frame's i counts the commands it has started
async_execute_commands(t) ==
    /\ Runs(t, "async_execute_commands", "run")
    /\ IF Top(t).list = <<>>
       THEN Return(t, BatchResult(<<>>, Top(t).raise_errors))
       ELSE stack' = StackCallFrom(t, [Top(t) EXCEPT !.pc = "command", !.i = 1],
                                   ExecuteCommand(Top(t).list[1], {}))
            /\ ret' = ret
    /\ Step(t)
    /\ UNCHANGED <<cmds, state, lock_vars, _disconnector>>

\* one pass of its loop: suppress(ConnectError, ExecutionError) swallows those
\* two, anything else leaves the loop
async_execute_commands_command(t) ==
    /\ Runs(t, "async_execute_commands", "command")
    /\ LET frame == Top(t)
       IN  IF ret[t].exc \notin ExecuteErrors \cup {None} THEN Return(t, ret[t])
           ELSE IF frame.i < Len(frame.list)
           THEN stack' = StackCallFrom(t, [frame EXCEPT !.i = frame.i + 1],
                                       ExecuteCommand(frame.list[frame.i + 1], {}))
                /\ ret' = ret
           ELSE Return(t, BatchResult(frame.list, frame.raise_errors))
    /\ Step(t)
    /\ UNCHANGED <<cmds, state, lock_vars, _disconnector>>

async_poll_sensors(t) ==
    /\ Runs(t, "async_poll_sensors", "run")
    /\ LET keys == Top(t).keys
       IN  IF \E k \in 1..Len(keys) : keys[k] \notin CollectionSensorKeys(Collection)
           THEN Raise(t, "KeyError")
           ELSE LET owners == [k \in 1..Len(keys) |-> get_sensor_command(Collection, keys[k])]
                    sensors == [k \in 1..Len(keys) |-> get_sensor(Collection, keys[k]).key]
                IN  /\ stack' = StackCallFrom(t, [Top(t) EXCEPT !.pc = "batch", !.list = owners,
                                                                !.res = [NoResult EXCEPT !.sensors = sensors]],
                                              Batch(Unique(owners), Top(t).raise_errors))
                    /\ ret' = ret
    /\ Step(t)
    /\ UNCHANGED <<cmds, state, lock_vars, _disconnector>>

async_poll_sensors_batch(t) ==
    /\ Runs(t, "async_poll_sensors", "batch")
    /\ LET keys == Top(t).keys
       IN  IF ret[t].exc # None THEN Return(t, ret[t])
           ELSE Return(t, [Top(t).res EXCEPT !.errors =
                    [k \in 1..Len(keys) |-> cmds[Top(t).list[k]].error]])
    /\ Step(t)
    /\ UNCHANGED <<cmds, state, lock_vars, _disconnector>>

async_run_action(t) ==
    /\ Runs(t, "async_run_action", "run")
    /\ IF Top(t).command \notin Range(action_commands) THEN Raise(t, "KeyError")
       ELSE Call(t, "command", ExecuteCommand(Top(t).command, Top(t).variables))
    /\ Step(t)
    /\ UNCHANGED <<cmds, state, lock_vars, _disconnector>>

async_run_action_command(t) ==
    /\ Runs(t, "async_run_action", "command")
    /\ Return(t, ret[t])
    /\ Step(t)
    /\ UNCHANGED <<cmds, state, lock_vars, _disconnector>>

RunAction(key, variables) ==
    [Frame("async_run_action", TRUE) EXCEPT !.command = key, !.variables = variables]

\* async_turn_off and async_restart, which differ in the permission, the
\* action and the request
async_turn_off(t) ==
    /\ stack[t] # <<>> /\ Top(t).pc = "run" /\ Top(t).fn \in {"async_turn_off", "async_restart"} /\ MayRun(t)
    /\ IF Top(t).fn = "async_turn_off" /\ ~config.allow_turn_off
       THEN Raise(t, "PermissionError")
       ELSE /\ stack' = StackCallFrom(t,
                            [Top(t) EXCEPT !.pc = "action", !.entry_request = state.request],
                            RunAction(IF Top(t).fn = "async_turn_off" THEN TURN_OFF ELSE RESTART, {}))
            /\ ret' = ret
    /\ Step(t)
    /\ UNCHANGED <<cmds, state, lock_vars, _disconnector>>

async_turn_off_action(t) ==
    /\ stack[t] # <<>> /\ Top(t).pc = "action" /\ Top(t).fn \in {"async_turn_off", "async_restart"} /\ MayRun(t)
    /\ IF ret[t].exc # None THEN Return(t, ret[t])
       ELSE IF ret[t].output[1].code > 0 THEN Return(t, Raised("ExecutionError", "exit_code"))
       ELSE stack' = StackCallFrom(t, [Top(t) EXCEPT !.pc = "disconnect", !.res = ret[t]],
                                   Frame("async_disconnect", TRUE))
            /\ ret' = ret
    /\ Step(t)
    /\ UNCHANGED <<cmds, state, lock_vars, _disconnector>>

async_turn_off_disconnect(t) ==
    /\ stack[t] # <<>> /\ Top(t).pc = "disconnect" /\ Top(t).fn \in {"async_turn_off", "async_restart"} /\ MayRun(t)
    /\ state' = IF Top(t).fn = "async_turn_off"
                THEN handle_turn_off(state, now) ELSE handle_restart(state, now)
    /\ Return(t, Top(t).res)
    /\ Step(t)
    /\ UNCHANGED <<cmds, lock_vars, _disconnector>>

\* _async_disconnect_later: sleep for the delay, disconnect, forget the task
_async_disconnect_later(t) ==
    /\ Runs(t, "_async_disconnect_later", "run")
    /\ IF config.disconnect_mode_delay > 0 THEN Goto(t, "sleep")
       ELSE Call(t, "disconnect", Frame("async_disconnect", TRUE))
    /\ Step(t)
    /\ UNCHANGED <<cmds, state, lock_vars, _disconnector>>

_async_disconnect_later_sleep(t) ==
    /\ Runs(t, "_async_disconnect_later", "sleep")
    /\ Call(t, "disconnect", Frame("async_disconnect", TRUE))
    /\ Step(t)
    /\ UNCHANGED <<cmds, state, lock_vars, _disconnector>>

_async_disconnect_later_disconnect(t) ==
    /\ Runs(t, "_async_disconnect_later", "disconnect")
    /\ _disconnector' = None
    /\ Return(t, NoResult)
    /\ Step(t)
    /\ UNCHANGED <<cmds, state, lock_vars>>

\* Sensor.async_set, a coroutine of the sensor (no lock of its own): validate,
\* choose the control command, and execute it unless there is none or the
\* sensor already has the value
async_set(t) ==
    /\ Runs(t, "async_set", "run")
    /\ LET sensor == get_sensor(Collection, Top(t).sensor)
           value == Top(t).value
           command == _get_control_command(sensor, value)
       IN  IF Validate(sensor, value) # None THEN Raise(t, Validate(sensor, value))
           ELSE IF command = None \/ value = sensor.value THEN Return(t, NoResult)
           ELSE Call(t, "command", ExecuteCommand(command, {"id", "value"}))
    /\ Step(t)
    /\ UNCHANGED <<cmds, state, lock_vars, _disconnector>>

\* ... after the control command: async_set has no return statement, so what
\* it hands back is None whatever the command's output was
async_set_command(t) ==
    /\ Runs(t, "async_set", "command")
    /\ Return(t, IF ret[t].exc # None THEN ret[t] ELSE NoResult)
    /\ Step(t)
    /\ UNCHANGED <<cmds, state, lock_vars, _disconnector>>

SetSensor(key, value) ==
    [Frame("async_set", FALSE) EXCEPT !.sensor = key, !.value = value]

PollSensors(keys, raise_errors) ==
    [Frame("async_poll_sensors", TRUE) EXCEPT !.keys = keys, !.raise_errors = raise_errors]

\* the exceptions the first loop of async_set_sensor_values catches
SetErrors == {"SensorError", "TypeError", "ValueError", "ConnectError", "ExecutionError"}

\* async_set_sensor_values up to the first poll
async_set_sensor_values(t) ==
    /\ Runs(t, "async_set_sensor_values", "run")
    /\ Call(t, "poll", PollSensors(Top(t).keys, FALSE))
    /\ Step(t)
    /\ UNCHANGED <<cmds, state, lock_vars, _disconnector>>

\* the first loop from index i on: the sensors that have an error are skipped,
\* the next one is set; after the last one comes the second poll
SetLoop(t, frame) ==
    LET todo == {j \in (frame.i + 1)..Len(frame.keys) : frame.res.errors[j] = None}
    IN  IF todo = {}
        THEN stack' = StackCallFrom(t, [frame EXCEPT !.pc = "check"], PollSensors(frame.keys, FALSE))
        ELSE LET j == CHOOSE k \in todo : \A l \in todo : k <= l
             IN  stack' = StackCallFrom(t, [frame EXCEPT !.pc = "set", !.i = j],
                                        SetSensor(frame.keys[j], frame.values[j]))

\* "errors = [*poll_errors]", then the first loop begins
async_set_sensor_values_poll(t) ==
    /\ Runs(t, "async_set_sensor_values", "poll")
    /\ IF ret[t].exc # None THEN Return(t, ret[t])
       ELSE SetLoop(t, [Top(t) EXCEPT !.res = ret[t]]) /\ ret' = ret
    /\ Step(t)
    /\ UNCHANGED <<cmds, state, lock_vars, _disconnector>>

\* "values[i] = await sensor.async_set(self, values[i])" and its except clause
async_set_sensor_values_set(t) ==
    /\ Runs(t, "async_set_sensor_values", "set")
    /\ LET frame == Top(t)
       IN  IF ret[t].exc \in SetErrors
           THEN SetLoop(t, [frame EXCEPT !.res.errors[frame.i] = ret[t].exc]) /\ ret' = ret
           ELSE IF ret[t].exc # None THEN Return(t, ret[t])
           ELSE SetLoop(t, [frame EXCEPT !.values[frame.i] = ret[t].value]) /\ ret' = ret
    /\ Step(t)
    /\ UNCHANGED <<cmds, state, lock_vars, _disconnector>>

\* the second loop: an error of the set stays, else the error of the second
\* poll, else "if values[i] != sensor.value" is a SensorError
SetResult(frame, poll_errors) ==
    LET errors == [k \in 1..Len(frame.keys) |->
                      IF frame.res.errors[k] # None THEN frame.res.errors[k]
                      ELSE IF poll_errors[k] # None THEN poll_errors[k]
                      ELSE IF frame.values[k] # get_sensor(Collection, frame.keys[k]).value
                      THEN "SensorError"
                      ELSE None]
    IN  IF frame.raise_errors /\ \E k \in 1..Len(errors) : errors[k] # None
        THEN Raised(errors[CHOOSE k \in 1..Len(errors) :
                               errors[k] # None /\ \A j \in 1..(k - 1) : errors[j] = None], None)
        ELSE [frame.res EXCEPT !.errors = errors]

\* async_set_sensor_values after the second poll
async_set_sensor_values_check(t) ==
    /\ Runs(t, "async_set_sensor_values", "check")
    /\ IF ret[t].exc # None THEN Return(t, ret[t])
       ELSE Return(t, SetResult(Top(t), ret[t].errors))
    /\ Step(t)
    /\ UNCHANGED <<cmds, state, lock_vars, _disconnector>>

----------------------------------------------------------------------------
(* The manager specification: two tasks call the operations of one manager *)
(* whose transport answers as it likes.                                    *)

\* c2 needs the value of c1's sensor, c1 is polled on an interval, the action
\* a1 needs a variable and links c1's sensor
Catalog ==
    [c \in {"c1", "c2", "a1", TURN_OFF, RESTART, "TEST"} |->
        CASE c = "c1" -> NewCommand("sensor", c, {}, {}, {}, 1, <<NewSensor("s1", "number", FALSE)>>)
          [] c = "c2" -> NewCommand("sensor", c, {}, {"s1"}, {}, NoInterval, <<NewSensor("s2", "text", FALSE)>>)
          [] c = "a1" -> NewCommand("action", c, {"msg"}, {}, {"s1"}, NoInterval, <<>>)
          [] c = "TEST" -> NewCommand("command", c, {}, {}, {}, NoInterval, <<>>)
          [] OTHER -> NewCommand("action", c, {}, {}, {}, NoInterval, <<>>)]

\* connected mode where turning off is allowed, and disconnect mode with a
\* delay where it is not
Configs ==
    {[disconnect_mode |-> mode[1], disconnect_mode_delay |-> mode[2], allow_turn_off |-> mode[3],
      request_timeouts |-> [r \in {TURN_ON, TURN_OFF, RESTART, CONNECT} |-> 1]] :
        mode \in {<<FALSE, 0, TRUE>>, <<TRUE, 1, FALSE>>}}

\* State after __init__
FreshState ==
    [online |-> FALSE, connected |-> FALSE, request |-> None, error |-> FALSE,
     _request_timestamp |-> 0]

\* no second manager: one that holds no command and is not connected
NoPeer ==
    [sensor_commands |-> <<>>, action_commands |-> <<>>, connected |-> FALSE,
     pc |-> "idle", raised |-> None, produced |-> {}]

\* a manager no task is calling
IdleManager ==
    /\ now = 0
    /\ _locked = FALSE
    /\ _task = None
    /\ _depth = 0
    /\ stack = [t \in AllTasks |-> <<>>]
    /\ ret = [t \in AllTasks |-> NoResult]
    /\ _disconnector = None
    /\ ops = 0
    /\ peer = NoPeer

\* the state of a manager after __init__
ManagerInit == state = FreshState /\ IdleManager

Init ==
    /\ cmds = Catalog
    /\ sensor_commands = <<"c2", "c1">>
    /\ action_commands = <<"a1", TURN_OFF, RESTART>>
    /\ last_op = "init"
    /\ check_result = "unchecked"
    /\ config \in Configs
    /\ ManagerInit

\* the calls a task makes
Calls ==
    {[Frame("async_update", TRUE) EXCEPT !.flags = flags] : flags \in {{}, {"force"}, {"once", "test"}}}
    \cup {Frame(fn, TRUE) : fn \in {"async_connect", "async_disconnect", "async_execute",
                                    "async_turn_off", "async_restart"}}
    \cup {[Frame("async_poll_sensors", TRUE) EXCEPT !.keys = keys, !.raise_errors = raise_errors] :
             keys \in {<<"s2", "s1", "s2">>, <<"zz">>}, raise_errors \in BOOLEAN}
    \cup {RunAction(key, variables) : key \in {"a1"}, variables \in {{}, {"msg"}}}
    \cup {RunAction("zz", {})}

\* the calls a task makes while another task is busy
ConcurrentCalls ==
    {Frame(fn, TRUE) : fn \in {"async_update", "async_disconnect"}}

\* a task calls one of these operations of the manager
StartOf(t, calls) ==
    /\ stack[t] = <<>>
    /\ MayRun(t)
    /\ ops < MaxOps
    /\ \E call \in calls : stack' = [stack EXCEPT ![t] = <<call>>]
    /\ ret' = [ret EXCEPT ![t] = NoResult]
    /\ ops' = ops + 1
    /\ last_op' = t
    /\ UNCHANGED <<catalog_vars, check_result, state, now, config, lock_vars, _disconnector, peer>>

\* the tasks being interchangeable, the second one is the one that calls
\* while the first is busy
Start(t) ==
    /\ t = "t2" => stack["t1"] # <<>>
    /\ StartOf(t, IF t = "t1" THEN Calls ELSE ConcurrentCalls)

\* the owner of the manager calls state.handle_turn_on()
TurnOn ==
    /\ ops < MaxOps
    /\ \A t \in AllTasks : ~Running(t)
    /\ state' = handle_turn_on(state, now)
    /\ state' # state
    /\ ops' = ops + 1
    /\ last_op' = "owner"
    /\ UNCHANGED <<catalog_vars, check_result, now, config, lock_vars, stack, ret, _disconnector, peer>>

\* two seconds pass between two operations (an operation takes less)
Tick ==
    /\ now + 2 <= MaxTime
    /\ _task = None
    /\ now' = now + 2
    /\ last_op' = "clock"
    /\ UNCHANGED <<catalog_vars, check_result, state, config, lock_vars, stack, ret, _disconnector, ops, peer>>

Next ==
    \/ \E t \in Tasks : Start(t)
    \/ \E t \in AllTasks : Acquire(t)
    \/ \E t \in AllTasks : Release(t)
    \/ \E t \in AllTasks : async_update(t)
    \/ \E t \in AllTasks : async_update_try(t)
    \/ \E t \in AllTasks : async_update_ping(t)
    \/ \E t \in AllTasks : async_update_connect(t)
    \/ \E t \in AllTasks : async_update_batch(t)
    \/ \E t \in AllTasks : async_ping(t)
    \/ \E t \in AllTasks : async_ping_reset(t)
    \/ \E t \in AllTasks : async_connect(t)
    \/ \E t \in AllTasks : async_connect_terminal(t)
    \/ \E t \in AllTasks : async_connect_reset(t)
    \/ \E t \in AllTasks : async_disconnect(t)
    \/ \E t \in AllTasks : async_disconnect_terminal(t)
    \/ \E t \in AllTasks : async_reset(t)
    \/ \E t \in AllTasks : async_reset_commands(t)
    \/ \E t \in AllTasks : async_execute(t)
    \/ \E t \in AllTasks : async_execute_connect(t)
    \/ \E t \in AllTasks : async_execute_terminal(t)
    \/ \E t \in AllTasks : async_execute_reset(t)
    \/ \E t \in AllTasks : async_render_string(t)
    \/ \E t \in AllTasks : async_render_string_poll(t)
    \/ \E t \in AllTasks : async_execute_command(t)
    \/ \E t \in AllTasks : async_execute_command_render(t)
    \/ \E t \in AllTasks : async_execute_command_execute(t)
    \/ \E t \in AllTasks : async_execute_command_poll(t)
    \/ \E t \in AllTasks : async_execute_commands(t)
    \/ \E t \in AllTasks : async_execute_commands_command(t)
    \/ \E t \in AllTasks : async_poll_sensors(t)
    \/ \E t \in AllTasks : async_poll_sensors_batch(t)
    \/ \E t \in AllTasks : async_run_action(t)
    \/ \E t \in AllTasks : async_run_action_command(t)
    \/ \E t \in AllTasks : async_turn_off(t)
    \/ \E t \in AllTasks : async_turn_off_action(t)
    \/ \E t \in AllTasks : async_turn_off_disconnect(t)
    \/ \E t \in AllTasks : _async_disconnect_later(t)
    \/ \E t \in AllTasks : _async_disconnect_later_sleep(t)
    \/ \E t \in AllTasks : _async_disconnect_later_disconnect(t)
    \/ TurnOn
    \/ Tick

Spec == Init /\ [][Next]_vars

----------------------------------------------------------------------------
(* The power specification: turn_off and restart called on a manager in   *)
(* each of the states it can be in between two operations.                *)

\* disconnect mode (with a delay) or not, turning off allowed or not
PowerConfigs ==
    {[disconnect_mode |-> mode[1], disconnect_mode_delay |-> IF mode[1] THEN 1 ELSE 0,
      allow_turn_off |-> mode[2],
      request_timeouts |-> [r \in {TURN_ON, TURN_OFF, RESTART, CONNECT} |-> 1]] :
        mode \in BOOLEAN \X BOOLEAN}

\* the states a manager is in after __init__; after handle_turn_on() and a
\* ping that succeeded; after a ping and a connect that succeeded
PowerStates ==
    {FreshState,
     handle_ping_success(handle_turn_on(FreshState, 0), 0),
     handle_connect_success(handle_ping_success(FreshState, 0), 0)}

PowerInit ==
    /\ cmds = Catalog
    /\ sensor_commands = <<"c2", "c1">>
    /\ action_commands = <<"a1", TURN_OFF, RESTART>>
    /\ last_op = "init"
    /\ check_result = "unchecked"
    /\ config \in PowerConfigs
    /\ state \in PowerStates
    /\ IdleManager

PowerCalls == {Frame(fn, TRUE) : fn \in {"async_turn_off", "async_restart"}}

StartPower(t) == StartOf(t, PowerCalls)

\* the coroutines turn_off and restart reach; their batches of linked and
\* required sensors are empty
PowerNext ==
    \/ StartPower("t1")
    \/ \E t \in AllTasks : Acquire(t)
    \/ \E t \in AllTasks : Release(t)
    \/ \E t \in AllTasks : async_connect(t)
    \/ \E t \in AllTasks : async_connect_terminal(t)
    \/ \E t \in AllTasks : async_connect_reset(t)
    \/ \E t \in AllTasks : async_disconnect(t)
    \/ \E t \in AllTasks : async_disconnect_terminal(t)
    \/ \E t \in AllTasks : async_reset(t)
    \/ \E t \in AllTasks : async_reset_commands(t)
    \/ \E t \in AllTasks : async_execute(t)
    \/ \E t \in AllTasks : async_execute_connect(t)
    \/ \E t \in AllTasks : async_execute_terminal(t)
    \/ \E t \in AllTasks : async_execute_reset(t)
    \/ \E t \in AllTasks : async_render_string(t)
    \/ \E t \in AllTasks : async_render_string_poll(t)
    \/ \E t \in AllTasks : async_execute_command(t)
    \/ \E t \in AllTasks : async_execute_command_render(t)
    \/ \E t \in AllTasks : async_execute_command_execute(t)
    \/ \E t \in AllTasks : async_execute_command_poll(t)
    \/ \E t \in AllTasks : async_execute_commands(t)
    \/ \E t \in AllTasks : async_poll_sensors(t)
    \/ \E t \in AllTasks : async_poll_sensors_batch(t)
    \/ \E t \in AllTasks : async_run_action(t)
    \/ \E t \in AllTasks : async_run_action_command(t)
    \/ \E t \in AllTasks : async_turn_off(t)
    \/ \E t \in AllTasks : async_turn_off_action(t)
    \/ \E t \in AllTasks : async_turn_off_disconnect(t)
    \/ \E t \in AllTasks : _async_disconnect_later(t)
    \/ \E t \in AllTasks : _async_disconnect_later_sleep(t)
    \/ \E t \in AllTasks : _async_disconnect_later_disconnect(t)

SpecPower == PowerInit /\ [][PowerNext]_vars

----------------------------------------------------------------------------
(* Claims about turn_off and restart, checked under SpecPower *)

PowerFrame(t, pc) ==
    stack[t] # <<>> /\ Top(t).fn \in {"async_turn_off", "async_restart"} /\ Top(t).pc = pc

\* the request that turn_off or restart records
PowerRequest(fn) == IF fn = "async_turn_off" THEN TURN_OFF ELSE RESTART

\* turn_off without the permission raises PermissionError at once and calls
\* nothing; an action that returned exit code 0 is followed by a disconnect
\* and ends with connected false and the request recorded; an exit code > 0
\* raises ExecutionError at once
PowerSteps ==
    [][\A t \in AllTasks :
         /\ (PowerFrame(t, "run") /\ stack'[t] # stack[t]
                 /\ Top(t).fn = "async_turn_off" /\ ~config.allow_turn_off)
                => /\ stack'[t] = WithTop(t, Done(t, Raised("PermissionError", None)))
                   /\ state' = state /\ cmds' = cmds
         /\ (PowerFrame(t, "action") /\ stack'[t] # stack[t]
                 /\ ret[t].exc = None /\ ret[t].output[1].code > 0)
                => /\ stack'[t] = WithTop(t, Done(t, Raised("ExecutionError", "exit_code")))
                   /\ state' = state
         /\ (PowerFrame(t, "action") /\ stack'[t] # stack[t]
                 /\ ret[t].exc = None /\ ret[t].output[1].code = 0)
                => Top(t)'.fn = "async_disconnect"]_vars

PowerSucceeded ==
    \A t \in AllTasks :
        (PowerFrame(t, "rel") /\ Top(t).res.exc = None)
            => /\ ~state.connected
               /\ state.request = PowerRequest(Top(t).fn)
               /\ Top(t).res.output[1].code = 0

\* C20 as stated: ... and an exit code > 0 leaves the request as it was when
\* the operation began
C20_FailureKeepsRequest ==
    /\ PowerSteps
    /\ [](PowerSucceeded)
    /\ [](\A t \in AllTasks :
            (PowerFrame(t, "rel") /\ Top(t).res.why = "exit_code")
                => state.request = Top(t).entry_request)

\* C20, amended: ... and an exit code > 0 leaves the request as it was, but
\* for a Connect request that the connect of disconnect mode has cleared
C20_TurnOffAndRestart ==
    /\ PowerSteps
    /\ [](PowerSucceeded)
    /\ [](\A t \in AllTasks :
            (PowerFrame(t, "rel") /\ Top(t).res.why = "exit_code")
                => \/ state.request = Top(t).entry_request
                   \/ /\ config.disconnect_mode
                      /\ Top(t).entry_request = CONNECT
                      /\ state.request = None)

\* a restart in disconnect mode began with a Connect request, connected, got
\* an exit code > 0 and raises with the request cleared
C20_Witness ==
    \E t \in AllTasks :
        /\ PowerFrame(t, "rel")
        /\ Top(t).res.why = "exit_code"
        /\ Top(t).entry_request = CONNECT
        /\ state.request = None

----------------------------------------------------------------------------
(* The set specification: set_sensor_values called on a manager whose      *)
(* sensors have control commands.                                          *)

ControlCommand(key) == NewCommand("command", key, {"id", "value"}, {}, {}, NoInterval, <<>>)

\* a number sensor with command_set; a binary sensor with command_on and
\* command_set but no command_off, and one with command_off only
SetCatalog ==
    [c \in {"c1", "c3", "set_s1", "set_b1", "on_b1", "off_b2"} |->
        CASE c = "c1" -> NewCommand("sensor", c, {}, {}, {}, NoInterval,
                             <<Controllable(NewSensor("s1", "number", FALSE), "set_s1", None, None)>>)
          [] c = "c3" -> NewCommand("sensor", c, {}, {}, {}, NoInterval,
                             <<Controllable(NewSensor("b1", "binary", FALSE), "set_b1", "on_b1", None),
                               Controllable(NewSensor("b2", "binary", FALSE), None, None, "off_b2")>>)
          [] OTHER -> ControlCommand(c)]

\* a manager in connected mode, after __init__ or after a ping and a connect
\* that succeeded
SetInit ==
    /\ cmds = SetCatalog
    /\ sensor_commands = <<"c1", "c3">>
    /\ action_commands = <<>>
    /\ last_op = "init"
    /\ check_result = "unchecked"
    /\ config \in {c \in PowerConfigs : ~c.disconnect_mode /\ c.allow_turn_off}
    /\ state \in {FreshState, handle_connect_success(handle_ping_success(FreshState, 0), 0)}
    /\ IdleManager

SetValues(keys, values, raise_errors) ==
    [Frame("async_set_sensor_values", TRUE) EXCEPT
        !.keys = keys, !.values = values, !.requested = values, !.raise_errors = raise_errors]

\* 12 and 7 are ints, "x" is a str, True and False are bools
SetCalls ==
    {SetValues(<<"s1">>, <<"12">>, raise_errors) : raise_errors \in BOOLEAN}
    \cup {SetValues(<<"s1">>, <<value>>, FALSE) : value \in {"7", "x"}}
    \cup {SetValues(<<"zz">>, <<"12">>, FALSE)}
    \cup {SetValues(<<"b1", "b2">>, values, FALSE) :
              values \in {<<"True", "False">>, <<"False", "True">>}}

StartSet(t) == StartOf(t, SetCalls)

NextSet ==
    \/ StartSet("t1")
    \/ \E t \in AllTasks : Acquire(t)
    \/ \E t \in AllTasks : Release(t)
    \/ \E t \in AllTasks : async_disconnect(t)
    \/ \E t \in AllTasks : async_disconnect_terminal(t)
    \/ \E t \in AllTasks : async_reset(t)
    \/ \E t \in AllTasks : async_reset_commands(t)
    \/ \E t \in AllTasks : async_execute(t)
    \/ \E t \in AllTasks : async_execute_terminal(t)
    \/ \E t \in AllTasks : async_execute_reset(t)
    \/ \E t \in AllTasks : async_render_string(t)
    \/ \E t \in AllTasks : async_render_string_poll(t)
    \/ \E t \in AllTasks : async_execute_command(t)
    \/ \E t \in AllTasks : async_execute_command_render(t)
    \/ \E t \in AllTasks : async_execute_command_execute(t)
    \/ \E t \in AllTasks : async_execute_command_poll(t)
    \/ \E t \in AllTasks : async_execute_commands(t)
    \/ \E t \in AllTasks : async_execute_commands_command(t)
    \/ \E t \in AllTasks : async_poll_sensors(t)
    \/ \E t \in AllTasks : async_poll_sensors_batch(t)
    \/ \E t \in AllTasks : async_set(t)
    \/ \E t \in AllTasks : async_set_command(t)
    \/ \E t \in AllTasks : async_set_sensor_values(t)
    \/ \E t \in AllTasks : async_set_sensor_values_poll(t)
    \/ \E t \in AllTasks : async_set_sensor_values_set(t)
    \/ \E t \in AllTasks : async_set_sensor_values_check(t)

SpecSet == SetInit /\ [][NextSet]_vars

----------------------------------------------------------------------------
(* The two-manager specification: a second manager runs update(test=True) *)
(* in the event loop of the first.  Both are connected, not in disconnect *)
(* mode, and have no sensor command that is due, so that get_commands()   *)
(* of both returns the module's _TEST_COMMAND, the object cmds["TEST"].   *)

\* an ExecutionError that the second manager's transport raised
PeerError == "ExecutionError of the peer"

\* the event loop may run the second manager: every task of the first one
\* is waiting for its transport or its sleep, or has not begun
PeerMayRun ==
    \A t \in AllTasks :
        IF stack[t] = <<>> THEN TRUE
        ELSE \/ <<Top(t).fn, Top(t).pc>> \in AwaitPoints
             \/ Top(t).pc = "acq" /\ Len(stack[t]) = 1

PeerStep ==
    /\ last_op' = "peer"
    /\ UNCHANGED <<sensor_commands, action_commands, check_result, state, now, config,
                   lock_vars, stack, ret, _disconnector>>

\* async_update(test=True) of the second manager up to its first await: the
\* transport's execute of the test command when connected, else its ping
PeerUpdate ==
    /\ peer.pc = "idle"
    /\ PeerMayRun
    /\ ops < MaxOps
    /\ ops' = ops + 1
    /\ peer' = [peer EXCEPT !.pc = IF peer.connected THEN "try" ELSE "ping",
                            !.raised = None, !.produced = {}]
    /\ cmds' = cmds
    /\ PeerStep

\* the transport's execute of the test command returns or times out:
\* handle_success or handle_error, then "tuple(command.error for command in
\* commands)" and the raise of async_execute_commands
PeerExecute ==
    /\ peer.pc \in {"try", "batch"}
    /\ PeerMayRun
    /\ \E outcome \in {"output", "TimeoutError"} :
          /\ cmds' = [cmds EXCEPT !["TEST"] =
                         IF outcome = "output" THEN handle_success(@, CommandOutput(0, <<>>, now))
                         ELSE handle_error(@, PeerError)]
          /\ peer' = [peer EXCEPT !.pc = "idle", !.raised = cmds'["TEST"].error,
                                  !.produced = IF outcome = "output" THEN @ ELSE @ \cup {PeerError}]
    /\ ops' = ops
    /\ PeerStep

\* the transport's execute raises ExecutionError: async_reset awaits the
\* transport's disconnect
PeerExecuteFails ==
    /\ peer.pc \in {"try", "batch"}
    /\ PeerMayRun
    /\ peer' = [peer EXCEPT !.pc = IF peer.pc = "try" THEN "try_reset" ELSE "batch_reset",
                            !.produced = @ \cup {PeerError}]
    /\ UNCHANGED <<cmds, ops>>
    /\ PeerStep

\* ... and after it: handle_error on the test command, the error read back
\* and raised; the first batch of async_update goes on to the ping, as
\* state.error is set, the second one raises to the caller
PeerReset ==
    /\ peer.pc \in {"try_reset", "batch_reset"}
    /\ PeerMayRun
    /\ cmds' = [cmds EXCEPT !["TEST"] = handle_error(@, PeerError)]
    /\ peer' = IF peer.pc = "try_reset"
               THEN [peer EXCEPT !.pc = "ping", !.connected = FALSE]
               ELSE [peer EXCEPT !.pc = "idle", !.connected = FALSE, !.raised = cmds'["TEST"].error]
    /\ ops' = ops
    /\ PeerStep

\* the ping of async_update: OfflineError, or on to the transport's connect
PeerPing ==
    /\ peer.pc = "ping"
    /\ PeerMayRun
    /\ \E online \in BOOLEAN :
          peer' = IF online THEN [peer EXCEPT !.pc = "connect"]
                  ELSE [peer EXCEPT !.pc = "idle", !.raised = "OfflineError",
                                    !.produced = @ \cup {"OfflineError"}]
    /\ UNCHANGED <<cmds, ops>>
    /\ PeerStep

\* the connect of async_update: ConnectError, or on to the second batch
PeerConnect ==
    /\ peer.pc = "connect"
    /\ PeerMayRun
    /\ \E connected \in BOOLEAN :
          peer' = IF connected THEN [peer EXCEPT !.pc = "batch", !.connected = TRUE]
                  ELSE [peer EXCEPT !.pc = "idle", !.raised = "ConnectError",
                                    !.produced = @ \cup {"ConnectError"}]
    /\ UNCHANGED <<cmds, ops>>
    /\ PeerStep

\* the first manager after an update that succeeded: connected, its sensor
\* command c1 has an output and is not due
PeerInit ==
    /\ cmds = [c \in {"c1", "TEST"} |->
                  IF c = "c1" THEN handle_success(Catalog[c], CommandOutput(0, <<<<"12.0">>>>, 0))
                  ELSE Catalog[c]]
    /\ sensor_commands = <<"c1">>
    /\ action_commands = <<>>
    /\ last_op = "init"
    /\ check_result = "unchecked"
    /\ config \in {c \in PowerConfigs : ~c.disconnect_mode /\ c.allow_turn_off}
    /\ state = handle_connect_success(handle_ping_success(FreshState, 0), 0)
    /\ now = 0
    /\ _locked = FALSE
    /\ _task = None
    /\ _depth = 0
    /\ stack = [t \in AllTasks |-> <<>>]
    /\ ret = [t \in AllTasks |-> NoResult]
    /\ _disconnector = None
    /\ ops = 0
    /\ peer = [NoPeer EXCEPT !.connected = TRUE]

PeerCalls ==
    {[Frame("async_update", TRUE) EXCEPT !.flags = {"test"}],
     Frame("async_execute", TRUE), Frame("async_reset", TRUE),
     PollSensors(<<"s1">>, FALSE)}

StartPeer(t) == StartOf(t, PeerCalls)

NextPeer ==
    \/ StartPeer("t1")
    \/ \E t \in AllTasks : Acquire(t)
    \/ \E t \in AllTasks : Release(t)
    \/ \E t \in AllTasks : async_update(t)
    \/ \E t \in AllTasks : async_update_try(t)
    \/ \E t \in AllTasks : async_update_ping(t)
    \/ \E t \in AllTasks : async_update_connect(t)
    \/ \E t \in AllTasks : async_update_batch(t)
    \/ \E t \in AllTasks : async_ping(t)
    \/ \E t \in AllTasks : async_ping_reset(t)
    \/ \E t \in AllTasks : async_connect(t)
    \/ \E t \in AllTasks : async_connect_terminal(t)
    \/ \E t \in AllTasks : async_connect_reset(t)
    \/ \E t \in AllTasks : async_disconnect(t)
    \/ \E t \in AllTasks : async_disconnect_terminal(t)
    \/ \E t \in AllTasks : async_reset(t)
    \/ \E t \in AllTasks : async_reset_commands(t)
    \/ \E t \in AllTasks : async_execute(t)
    \/ \E t \in AllTasks : async_execute_terminal(t)
    \/ \E t \in AllTasks : async_execute_reset(t)
    \/ \E t \in AllTasks : async_render_string(t)
    \/ \E t \in AllTasks : async_render_string_poll(t)
    \/ \E t \in AllTasks : async_execute_command(t)
    \/ \E t \in AllTasks : async_execute_command_render(t)
    \/ \E t \in AllTasks : async_execute_command_execute(t)
    \/ \E t \in AllTasks : async_execute_command_poll(t)
    \/ \E t \in AllTasks : async_execute_commands(t)
    \/ \E t \in AllTasks : async_execute_commands_command(t)
    \/ \E t \in AllTasks : async_poll_sensors(t)
    \/ \E t \in AllTasks : async_poll_sensors_batch(t)
    \/ PeerUpdate
    \/ PeerExecute
    \/ PeerExecuteFails
    \/ PeerReset
    \/ PeerPing
    \/ PeerConnect

SpecPeer == PeerInit /\ [][NextPeer]_vars

----------------------------------------------------------------------------
(* Claims about two managers, checked under SpecPeer *)

\* what an operation of either manager raises was produced by a transport
\* call of that manager
OwnErrorsOnly ==
    /\ (peer.pc = "idle" /\ peer.raised # None) => peer.raised \in peer.produced
    /\ \A t \in AllTasks : \A i \in 1..Len(stack[t]) :
           stack[t][i].res.exc # PeerError /\ ret[t].exc # PeerError

\* C19: while the second manager's update is in progress, no step of an
\* operation of the first manager changes the output or the error of a
\* command the second manager executes and reads, and the errors an
\* operation raises are errors of its own manager's transport calls.
C19_NoSharedState ==
    /\ [](OwnErrorsOnly)
    /\ [][(peer.pc # "idle" /\ last_op' \in AllTasks)
             => /\ cmds'["TEST"].output = cmds["TEST"].output
                /\ cmds'["TEST"].error = cmds["TEST"].error]_vars

----------------------------------------------------------------------------
(* Claims about setting sensor values, checked under SpecSet *)

\* C13: when set_sensor_values returns its errors, an index has the
\* SensorError "Value not set correctly" only if the value the sensor holds
\* after the second poll differs from the value the caller asked for, and an
\* index has no error only if the two are equal.
C13_ErrorIffDifferent ==
    \A t \in AllTasks :
        (At(t, "async_set_sensor_values", "rel") /\ Top(t).res.exc = None)
            => \A i \in 1..Len(Top(t).keys) :
                   LET observed == get_sensor(Collection, Top(t).keys[i]).value
                       asked == Top(t).requested[i]
                   IN  /\ Top(t).res.errors[i] = "SensorError" => observed # asked
                       /\ Top(t).res.errors[i] = None => observed = asked

\* the control command the sensor's class chooses for a value
ExpectedControl(sensor, value) ==
    CASE sensor.kind = "binary" /\ value = "True" /\ sensor.command_on # None -> sensor.command_on
      [] sensor.kind = "binary" /\ value = "False" /\ sensor.command_off # None -> sensor.command_off
      [] OTHER -> sensor.command_set

\* C14: the step of async_set either raises the validation error, or returns
\* without a call when there is no control command for the value or the
\* sensor already holds it (commands, sensors and state untouched in both
\* cases), or calls execute_command with the chosen control command and the
\* variables id and value; and every transport execute made on behalf of an
\* async_set is of that control command.
C14_SetIssuesControlCommand ==
    /\ [][\A t \in AllTasks :
            (At(t, "async_set", "run") /\ stack'[t] # stack[t])
                => LET sensor == get_sensor(Collection, Top(t).sensor)
                       value == Top(t).value
                       expected == ExpectedControl(sensor, value)
                       returned == SubSeq(stack[t], 1, Len(stack[t]) - 1)
                   IN  IF Validate(sensor, value) # None
                       THEN /\ stack'[t] = returned /\ ret'[t].exc = Validate(sensor, value)
                            /\ cmds' = cmds /\ state' = state
                       ELSE IF expected = None \/ value = sensor.value
                       THEN /\ stack'[t] = returned /\ ret'[t] = NoResult
                            /\ cmds' = cmds /\ state' = state
                       ELSE stack'[t] = Append(WithTop(t, [Top(t) EXCEPT !.pc = "command"]),
                                               ExecuteCommand(expected, {"id", "value"}))]_vars
    /\ [](\A t \in AllTasks : \A i \in 1..Len(stack[t]) : \A j \in (i + 1)..Len(stack[t]) :
            (stack[t][i].fn = "async_set" /\ stack[t][j].fn = "async_execute")
                => stack[t][j].command =
                       ExpectedControl(get_sensor(Collection, stack[t][i].sensor), stack[t][i].value))

\* the binary sensor b1, which has no command_off, is being switched off with
\* its command_set
C14_Witness ==
    \E t \in AllTasks :
        /\ At(t, "async_execute", "terminal")
        /\ Top(t).command = "set_b1"
        /\ \E i \in 1..Len(stack[t]) :
               stack[t][i].fn = "async_set" /\ stack[t][i].sensor = "b1" /\ stack[t][i].value = "False"

----------------------------------------------------------------------------
(* Claims about the manager, checked under Spec *)

Frames(t) == {stack[t][i] : i \in 1..Len(stack[t])}

\* the locked coroutines of task t that have the lock and have not released it
HeldFrames(t) == {i \in 1..Len(stack[t]) : stack[t][i].locked /\ stack[t][i].pc # "acq"}
Holds(t) == HeldFrames(t) # {}

\* a task past the wrapper's acquire: its next step is a transport call or
\* touches the state, the commands or the sensors
InOperation(t) == stack[t] # <<>> /\ Top(t).pc # "acq"

\* a call of the transport is in flight
InTransport(t) ==
    /\ stack[t] # <<>>
    /\ <<Top(t).fn, Top(t).pc>> \in AwaitPoints \ {<<"_async_disconnect_later", "sleep">>}

\* C1: at most one task is inside the manager's operations at a time, it is
\* the owner of the lock, and every change of the state, the commands or the
\* sensors and every transport call is a step of that owner
C1_MutualExclusion ==
    /\ [](/\ \A t, u \in AllTasks : (Holds(t) /\ Holds(u)) => t = u
          /\ \A t \in AllTasks : InOperation(t) => Holds(t) /\ _task = t)
    /\ [][(state' # state \/ cmds' # cmds \/ \E t \in AllTasks : InTransport(t)' # InTransport(t))
             => (last_op' = "owner" \/ last_op' = _task')]_vars

\* a task waits for the lock while the other one is inside a transport call
C1_Witness ==
    \E t, u \in AllTasks :
        /\ t # u
        /\ InTransport(t)
        /\ Holds(t)
        /\ stack[u] # <<>> /\ Top(u).pc = "acq"

\* C2: the depth is never negative, the lock has no owner exactly when the
\* depth is 0 and the mutex is free, the depth is the number of nested
\* operations of the owner, and the owner's next acquire does not wait
C2_Reentrancy ==
    /\ _depth >= 0
    /\ (_task = None) <=> (_depth = 0)
    /\ _locked <=> (_task # None)
    /\ \A t \in AllTasks :
          /\ _task = t => _depth = Cardinality(HeldFrames(t))
          /\ _task # t => ~Holds(t)
          /\ (_task = t /\ Top(t).pc = "acq") => CanAcquire(t)

\* the owner is about to acquire the lock for the third time
C2_Witness ==
    \E t \in AllTasks : _task = t /\ _depth = 2 /\ Top(t).pc = "acq"

\* what async_reset leaves: no connection, and no output, error or sensor
\* value on any command of the collection
WasReset ==
    /\ ~state.connected
    /\ \A c \in Range(commands(Collection)) :
          /\ cmds[c].output = NoOutput
          /\ cmds[c].error = None
          /\ \A sensor \in SensorsOf(cmds[c]) : sensor.value = None

\* async_execute is about to raise ExecutionError to its caller for one of
\* these reasons
ExecuteRaises(t, reasons) ==
    /\ At(t, "async_execute", "rel")
    /\ Top(t).res.exc = "ExecutionError"
    /\ Top(t).res.why \in reasons

\* the coroutine that awaits the top frame of t
Caller(t) == IF Len(stack[t]) > 1 THEN stack[t][Len(stack[t]) - 1].fn ELSE None

MayCallConnect(st) == ~st.connected /\ st.online /\ ~shutting_down(st) /\ ~st.error

C6_BatchRunsEveryItem ==
    \A t \in AllTasks : \A frame \in Frames(t) :
        (frame.fn = "async_execute_commands" /\ frame.pc = "rel")
            => /\ frame.i = Len(frame.list)
               /\ frame.res.exc # None => frame.raise_errors

\* the frame that awaits the top frame of t
CallerFrame(t) == stack[t][Len(stack[t]) - 1]

\* C11: a command whose rendering fails, because a variable of its template
\* is missing or a required sensor has no value after the poll, raises
\* CommandError and is never handed to the transport's execute
C11_RenderFailureNeverExecutes ==
    /\ [](\A t \in AllTasks :
            (At(t, "async_execute", "terminal") /\ Top(t).command # None)
                => /\ cmds[Top(t).command].required_variables \subseteq CallerFrame(t).variables
                   /\ \A key \in cmds[Top(t).command].required_sensors :
                          get_sensor(Collection, key).value # None)
    /\ [][\A t \in AllTasks :
             /\ (/\ At(t, "async_render_string", "run")
                 /\ stack'[t] # stack[t]
                 /\ ~(cmds[Top(t).command].required_variables \subseteq Top(t).variables))
                    => stack'[t] = SubSeq(stack[t], 1, Len(stack[t]) - 1) /\ ret'[t].exc = "CommandError"
             /\ (/\ At(t, "async_render_string", "poll")
                 /\ stack'[t] # stack[t]
                 /\ ret[t].exc = None
                 /\ \E key \in cmds[Top(t).command].required_sensors :
                        get_sensor(Collection, key).value = None)
                    => stack'[t] = SubSeq(stack[t], 1, Len(stack[t]) - 1) /\ ret'[t].exc = "CommandError"
             /\ (/\ At(t, "async_execute_command", "render")
                 /\ stack'[t] # stack[t]
                 /\ ret[t].exc = "CommandError")
                    => /\ stack'[t] = WithTop(t, Done(t, ret[t]))
                       /\ cmds' = cmds /\ state' = state]_vars

\* the rendering of c2 has raised CommandError: its required sensor s1 was
\* polled, c1 ran, and s1 still has no value
C11_Witness ==
    \E t \in AllTasks :
        /\ At(t, "async_execute_command", "render")
        /\ Top(t).command = "c2"
        /\ ret[t].exc = "CommandError"
        /\ cmds["c1"].output # NoOutput
        /\ get_sensor(Collection, "s1").value = None

\* the index of the first occurrence of x in s
FirstIndex(s, x) == CHOOSE i \in 1..Len(s) : s[i] = x /\ \A j \in 1..(i - 1) : s[j] # x

\* C12: poll_sensors returns the sensors and the errors in the order of its
\* keys; its batch holds each owning command once, in the order of first
\* occurrence; an unknown key raises KeyError before anything is executed
C12_PollOrder ==
    /\ [](\A t \in AllTasks : \A i \in 1..Len(stack[t]) :
            LET frame == stack[t][i]
            IN  /\ (frame.fn = "async_poll_sensors" /\ frame.pc = "rel" /\ frame.res.exc = None)
                      => /\ frame.res.sensors = frame.keys
                         /\ Len(frame.res.errors) = Len(frame.keys)
                         /\ \A k \in 1..Len(frame.keys) :
                                frame.res.errors[k] =
                                    cmds[get_sensor_command(Collection, frame.keys[k])].error
                /\ (i > 1 /\ frame.fn = "async_execute_commands"
                          /\ stack[t][i - 1].fn = "async_poll_sensors")
                      => LET keys == stack[t][i - 1].keys
                             owners == [k \in 1..Len(keys) |-> get_sensor_command(Collection, keys[k])]
                         IN  /\ Range(frame.list) = Range(owners)
                             /\ \A a, b \in 1..Len(frame.list) :
                                    a < b => FirstIndex(owners, frame.list[a])
                                                 < FirstIndex(owners, frame.list[b]))
    /\ [][\A t \in AllTasks :
             (/\ At(t, "async_poll_sensors", "run")
              /\ stack'[t] # stack[t]
              /\ \E k \in 1..Len(Top(t).keys) : Top(t).keys[k] \notin CollectionSensorKeys(Collection))
                 => /\ stack'[t] = WithTop(t, Done(t, Raised("KeyError", None)))
                    /\ cmds' = cmds /\ state' = state]_vars

\* a poll of s2, s1, s2 returns the error of c2 at both ends and none for c1
C12_Witness ==
    \E t \in AllTasks :
        /\ At(t, "async_poll_sensors", "rel")
        /\ Top(t).keys = <<"s2", "s1", "s2">>
        /\ Top(t).res.errors = <<"ExecutionError", None, "ExecutionError">>

\* C15: disconnect while not connected calls nothing and changes nothing;
\* disconnect while connected calls the transport's disconnect once and then
\* sets connected to false
C15_DisconnectIdempotent ==
    /\ [](\A t \in AllTasks : At(t, "async_disconnect", "terminal") => state.connected)
    /\ [][\A t \in AllTasks :
             /\ (At(t, "async_disconnect", "run") /\ stack'[t] # stack[t])
                    => IF state.connected
                       THEN /\ stack'[t] = WithTop(t, [Top(t) EXCEPT !.pc = "terminal"])
                            /\ state' = state
                       ELSE /\ stack'[t] = WithTop(t, Done(t, NoResult))
                            /\ state' = state /\ cmds' = cmds
             /\ (At(t, "async_disconnect", "terminal") /\ stack'[t] # stack[t])
                    => /\ state' = [state EXCEPT !.connected = FALSE]
                       /\ stack'[t] = WithTop(t, Done(t, NoResult))]_vars

\* disconnect is called by the owner program on a manager that is online
\* and not connected
C15_Witness ==
    \E t \in AllTasks :
        /\ At(t, "async_disconnect", "run")
        /\ Len(stack[t]) = 1
        /\ state.online /\ ~state.connected

\* the frame of the async_ping that awaits the async_disconnect on top of
\* the stack of t through its async_reset
PingOfDisconnect(t) == stack[t][Len(stack[t]) - 2]

DisconnectOfPing(t) ==
    /\ Len(stack[t]) >= 3
    /\ Top(t).fn = "async_disconnect"
    /\ CallerFrame(t).fn = "async_reset"
    /\ PingOfDisconnect(t).fn = "async_ping"

\* C21: when the transport's ping fails, async_ping resets the manager and
\* raises OfflineError: the transport's disconnect is called iff the manager
\* was connected, and when the error is raised connected and online are
\* false and every command of the collection has no output, no error and no
\* sensor value; when the ping succeeds online is true, the state changes
\* as State.handle_ping_success says and no command or sensor changes
C21_PingFailureResets ==
    /\ [](\A t \in AllTasks :
            /\ At(t, "async_ping", "reset") => WasReset
            /\ (At(t, "async_ping", "rel") /\ Top(t).res.exc # None)
                   => Top(t).res.exc = "OfflineError" /\ WasReset /\ ~state.online
            /\ (At(t, "async_ping", "rel") /\ Top(t).res.exc = None) => state.online
            /\ (DisconnectOfPing(t) /\ Top(t).pc = "terminal") => PingOfDisconnect(t).entry_connected)
    /\ [][\A t \in AllTasks :
             /\ (At(t, "async_ping", "run") /\ stack'[t] # stack[t])
                    => /\ cmds' = cmds
                       /\ \/ /\ stack'[t] = WithTop(t, Done(t, NoResult))
                             /\ state' = [state EXCEPT !.online = TRUE,
                                              !.request = IF @ = TURN_ON THEN CONNECT ELSE @,
                                              !._request_timestamp = IF state.request = TURN_ON THEN now ELSE @]
                          \/ /\ Len(stack'[t]) = Len(stack[t]) + 1
                             /\ stack'[t][Len(stack'[t])].fn = "async_reset"
                             /\ state' = state
             /\ (DisconnectOfPing(t) /\ Top(t).pc = "run" /\ stack'[t] # stack[t])
                    => (stack'[t][Len(stack'[t])].pc = "terminal") <=> PingOfDisconnect(t).entry_connected]_vars

\* a ping that failed while the manager was connected and a sensor had a
\* value is about to raise OfflineError
C21_Witness ==
    \E t \in AllTasks :
        /\ At(t, "async_ping", "rel")
        /\ Top(t).res.exc = "OfflineError"
        /\ Top(t).entry_connected
        /\ \E c \in Range(sensor_commands) : \E sensor \in SensorsOf(cmds[c]) :
               sensor.last_known_value # None

\* a step of task t in which async_update calls state.update()
CallsStateUpdate(t) ==
    /\ At(t, "async_update", "run") \/ At(t, "async_update", "try")
    /\ last_op' = t

\* C22: when the transport's connect fails, async_connect resets the manager,
\* sets state.error and raises ConnectError; while state.error is set the
\* manager is not connected, no transport connect is in flight and a call of
\* async_connect raises ConnectError at once; state.error becomes false
\* only in a state.update()
C22_ConnectFailureSetsError ==
    /\ [](/\ state.error => ~state.connected
          /\ \A t \in AllTasks :
                /\ At(t, "async_connect", "reset") => WasReset
                /\ At(t, "async_connect", "terminal") => ~state.error)
    /\ [][/\ \A t \in AllTasks :
               /\ (At(t, "async_connect", "reset") /\ stack'[t] # stack[t])
                      => /\ stack'[t] = WithTop(t, Done(t, Raised("ConnectError", None)))
                         /\ state' = [state EXCEPT !.error = TRUE]
                         /\ WasReset'
               /\ (At(t, "async_connect", "run") /\ stack'[t] # stack[t] /\ state.error)
                      => /\ stack'[t] = WithTop(t, Done(t, Raised("ConnectError", None)))
                         /\ state' = state /\ cmds' = cmds
          /\ (state.error /\ ~state'.error) => \E u \in AllTasks : CallsStateUpdate(u)]_vars

\* the transport's connect has failed on a manager that was connected
\* before, and the reset is done
C22_Witness ==
    \E t \in AllTasks :
        /\ At(t, "async_connect", "reset")
        /\ \E c \in Range(sensor_commands) : \E sensor \in SensorsOf(cmds[c]) :
               sensor.last_known_value # None

\* the top frame of t calls the locked coroutine fn and goes on at pc
Calls_(t, pc, fn) ==
    /\ Len(stack'[t]) = Len(stack[t]) + 1
    /\ stack'[t][Len(stack[t])].fn = Top(t).fn
    /\ stack'[t][Len(stack[t])].pc = pc
    /\ stack'[t][Len(stack'[t])].fn = fn
    /\ stack'[t][Len(stack'[t])].pc = "acq"

\* C23: an update that begins connected and outside disconnect mode executes
\* its batch first; when the batch raises nothing it returns without a ping
\* or a connect; when the batch raises an ExecutionError and state.error is
\* set it clears the error and goes on to the ping, after the ping to the
\* connect and after the connect to the batch of the commands that are then
\* due; when state.error is not set it raises the ExecutionError to its
\* caller without a ping or a connect
C23_UpdateWhileConnected ==
    /\ [](\A t \in AllTasks : \A i \in 1..Len(stack[t]) :
            (stack[t][i].fn = "async_update" /\ stack[t][i].pc = "try")
                => ~config.disconnect_mode /\ stack[t][i].entry_connected)
    /\ [][\A t \in AllTasks :
             /\ (At(t, "async_update", "run") /\ stack'[t] # stack[t]
                     /\ ~config.disconnect_mode /\ state.connected)
                    => /\ Calls_(t, "try", "async_execute_commands")
                       /\ stack'[t][Len(stack'[t])].list = get_commands(Top(t).flags)
                       /\ state'.error = FALSE
             /\ (At(t, "async_update", "try") /\ stack'[t] # stack[t])
                    => CASE ret[t].exc = None ->
                              /\ stack'[t] = WithTop(t, Done(t, NoResult))
                              /\ state' = state /\ cmds' = cmds
                         [] ret[t].exc = "ExecutionError" /\ state.error ->
                              /\ Calls_(t, "ping", "async_ping")
                              /\ state'.error = FALSE /\ cmds' = cmds
                         [] OTHER ->
                              /\ stack'[t] = WithTop(t, Done(t, ret[t]))
                              /\ state' = state /\ cmds' = cmds
             /\ (At(t, "async_update", "ping") /\ stack'[t] # stack[t]
                     /\ ret[t].exc = None /\ ~config.disconnect_mode)
                    => Calls_(t, "connect", "async_connect") /\ state' = state
             /\ (At(t, "async_update", "connect") /\ stack'[t] # stack[t] /\ ret[t].exc = None)
                    => /\ Calls_(t, "batch", "async_execute_commands")
                       /\ stack'[t][Len(stack'[t])].list = get_commands(Top(t).flags)]_vars

\* an update that began connected has, in the same call, pinged and
\* connected after an ExecutionError and executed a command again
C23_Witness ==
    \E t \in AllTasks :
        /\ At(t, "async_update", "batch")
        /\ Top(t).entry_connected /\ ~config.disconnect_mode
        /\ ret[t].exc = None
        /\ \E c \in Range(sensor_commands) : cmds[c].output # NoOutput

\* the transport is executing a sensor command for a poll_sensors that the
\* owner program called
PollExecutes(t, command) ==
    /\ At(t, "async_execute", "terminal")
    /\ Top(t).command = command
    /\ cmds[command].kind = "sensor"
    /\ stack[t][1].fn = "async_poll_sensors"

----------------------------------------------------------------------------
(* The sensor specification: the operations that change sensors, applied  *)
(* to one sensor command with outputs drawn from bounded sets.            *)

\* lines for a static sensor, and rows <<id, data>> for a dynamic one: "a" and
\* "A" share a key, "" and "x" are no numbers, <<"a">> has too few fields
StaticLines == {<<"">>, <<"12.0">>}
RowLines == {<<"a", " 7">>, <<"A", "12.0">>, <<"b", " 7">>, <<"b", "x">>, <<"a">>}
Stdouts == {head \o rows : head \in SeqsUpTo(StaticLines, 1), rows \in SeqsUpTo(RowLines, MaxRows)}
ExitCodes == {0, 1, -1}

SensorLayouts ==
    { <<NewSensor("s", "text", FALSE), NewSensor("d", "number", TRUE)>> }

SensorInit ==
    /\ \E sensors \in SensorLayouts :
           cmds = [c \in {"c1"} |-> NewCommand("sensor", "c1", {}, {}, {}, None, sensors)]
    /\ sensor_commands = <<"c1">>
    /\ action_commands = <<>>
    /\ last_op = "init"
    /\ check_result = "unchecked"
    /\ config \in {c \in Configs : ~c.disconnect_mode}
    /\ ManagerInit

Observe(op) == last_op' = op

\* a successful execution: handle_success with the transport's output (a
\* command that ends with a positive exit code has printed nothing); the
\* step is observed as a success when update_sensors reads the stdout
SensorSuccess ==
    \E code \in ExitCodes, stdout \in Stdouts :
        /\ (code > 0 => stdout = <<>>)
        /\ cmds' = [cmds EXCEPT !["c1"] = handle_success(@, CommandOutput(code, stdout, 0))]
        /\ Observe(IF CodeFailed(code) THEN "exit_code" ELSE "success")
        /\ UNCHANGED <<sensor_commands, action_commands, check_result, manager_vars>>

\* a failed rendering, connect or execution: handle_error
SensorFailure ==
    \E exc \in {"ExecutionError", "ConnectError"} :
        /\ cmds' = [cmds EXCEPT !["c1"] = handle_error(@, exc)]
        /\ Observe("error")
        /\ UNCHANGED <<sensor_commands, action_commands, check_result, manager_vars>>

\* Manager.async_reset's loop body
SensorReset ==
    /\ cmds' = [cmds EXCEPT !["c1"] = reset(@)]
    /\ Observe("reset")
    /\ UNCHANGED <<sensor_commands, action_commands, check_result, manager_vars>>

\* the collection's command is added to the collection again: the copy takes
\* the place of the original
SensorInsert ==
    /\ LET coll == add_sensor_command(Collection, "c1", cmds["c1"])
       IN  /\ cmds' = coll.cmds
           /\ sensor_commands' = coll.sensor_commands
           /\ action_commands' = coll.action_commands
    /\ Observe("insert")
    /\ UNCHANGED <<check_result, manager_vars>>

SensorNext == SensorSuccess \/ SensorFailure \/ SensorReset \/ SensorInsert

SpecSensor == SensorInit /\ [][SensorNext]_sensor_vars

----------------------------------------------------------------------------
(* Claims about sensors, checked under SpecSensor *)

AllSensors == UNION {SensorsOf(cmds[c]) : c \in DOMAIN cmds}

\* C7: every sensor (static, dynamic or child) whose value is not None has
\* last_known_value equal to value
C7_ValueIsLastKnown ==
    \A sensor \in AllSensors : sensor.value # None => sensor.last_known_value = sensor.value

\* a successful update left a static sensor and a child with a value, and
\* another child with a last known value but no current value
C7_Witness ==
    /\ last_op = "success"
    /\ \E c \in DOMAIN cmds :
          /\ \E sensor \in Range(cmds[c].sensors) : ~sensor.dynamic /\ sensor.value # None
          /\ \E sensor \in Range(cmds[c].sensors) :
                /\ \E child \in Range(sensor.child_sensors) : child.value # None
                /\ \E child \in Range(sensor.child_sensors) :
                       child.value = None /\ child.last_known_value # None

\* the sensor of cmds' that is the same object as the one at index i (child
\* j, or 0 for the sensor itself) of command c, as a set of at most one
SameSensorNext(c, i, j) ==
    IF c \notin DOMAIN cmds' \/ Len(cmds'[c].sensors) < i THEN {}
    ELSE IF j = 0 THEN {cmds'[c].sensors[i]}
    ELSE {child \in Range(cmds'[c].sensors[i].child_sensors) :
              child.key = cmds[c].sensors[i].child_sensors[j].key}

KeepsLastKnown(old, new) ==
    /\ old.last_known_value # None => new.last_known_value # None
    /\ new.last_known_value # old.last_known_value =>
          last_op' = "success" /\ new.value = new.last_known_value

DynRowsOf(command, i) ==
    LET dyn_start == DynStart(command.sensors)
    IN  DynRows(command.sensors[i], i - dyn_start, Len(command.sensors) - dyn_start + 1,
                SubSeq(command.output[1].stdout, dyn_start, Len(command.output[1].stdout)))

\* the value a fresh reading of data gives
ReadingOf(sensor, data) == _update_value(sensor, data).value

\* C9: after a dynamic sensor is updated with a non-null list of rows, its
\* children are exactly the distinct keys of the rows, and every child holds
\* the reading of the data field of a row of its key
C9_ChildrenMatchRows ==
    \A c \in DOMAIN cmds : \A i \in 1..Len(cmds[c].sensors) :
        LET command == cmds[c]
            sensor == command.sensors[i]
        IN  (/\ last_op = "success"
             /\ sensor.dynamic
             /\ DynRowsOf(command, i) # <<>>)
            => LET rows == DynRowsOf(command, i)
               IN  /\ child_sensors_by_key(sensor) = {rows[k].key : k \in 1..Len(rows)}
                   /\ \A child \in Range(sensor.child_sensors) :
                          \E k \in 1..Len(rows) :
                              /\ rows[k].key = child.key
                              /\ child.value = ReadingOf(child, rows[k].data)

----------------------------------------------------------------------------
(* The collection specification: commands are inserted into and removed   *)
(* from a collection that starts empty, its sensor commands are updated,  *)
(* a manager is seeded from it, and the inserted objects and the          *)
(* manager's copies change.  The objects live in cmds; the collection and *)
(* the manager hold lists of their names.                                 *)

\* the objects callers insert: a dynamic sensor d, a static sensor with the
\* key of d's child for the row a, and two action commands with one key
Templates ==
    [c \in {"X", "Y", "A", "A2"} |->
        CASE c = "X" -> NewCommand("sensor", c, {}, {}, {}, NoInterval, <<NewSensor("d", "number", TRUE)>>)
          [] c = "Y" -> NewCommand("sensor", c, {}, {}, {}, NoInterval, <<NewSensor("d_a", "number", FALSE)>>)
          [] c = "A" -> NewCommand("action", "a", {}, {}, {}, NoInterval, <<>>)
          [] OTHER   -> NewCommand("action", "a", {"msg"}, {}, {}, NoInterval, <<>>)]

CollInit ==
    /\ cmds = Templates
    /\ sensor_commands = <<>>
    /\ action_commands = <<>>
    /\ last_op = "init"
    /\ check_result = "unchecked"
    /\ config \in {c \in Configs : ~c.disconnect_mode}
    /\ ManagerInit

\* the name of the n-th object that an insertion creates
NewId(n) == "n" \o ToString(n)

\* what an execution leaves on a command: the output of a row a, or an error
Executed(command) ==
    {handle_success(command, CommandOutput(0, <<<<"a", " 7">>>>, 0)),
     handle_error(command, "ExecutionError")}

\* a command nobody has executed
Fresh(command) == command = reset(command)

\* the objects somebody still refers to: the callers' and those in a list
Referenced(coll) ==
    DOMAIN Templates \cup Range(commands(coll))
        \cup Range(peer.sensor_commands) \cup Range(peer.action_commands)

CollWrite(coll) ==
    /\ cmds' = [c \in Referenced(coll) |-> coll.cmds[c]]
    /\ sensor_commands' = coll.sensor_commands
    /\ action_commands' = coll.action_commands

CollFrame == UNCHANGED <<check_result, state, now, config, lock_vars, stack, ret, _disconnector>>

CollAddAction ==
    \E src \in {"A", "A2"} :
        /\ ops < MaxCopies
        /\ CollWrite(add_action_command(Collection, CopyOf(src, NewId(ops + 1)), cmds[src]))
        /\ ops' = ops + 1
        /\ Observe("add_action_command " \o src)
        /\ peer' = peer
        /\ CollFrame

CollAddSensor ==
    \E src \in {"X", "Y"} :
        /\ ops < MaxCopies
        /\ CollWrite(add_sensor_command(Collection, CopyOf(src, NewId(ops + 1)), cmds[src]))
        /\ ops' = ops + 1
        /\ Observe("add_sensor_command " \o src)
        /\ peer' = peer
        /\ CollFrame

CollRemoveAction ==
    \E key \in ActionKeys(Collection) :
        /\ CollWrite(remove_action_command(Collection, key))
        /\ Observe("remove_action_command")
        /\ UNCHANGED <<ops, peer>>
        /\ CollFrame

CollRemoveSensor ==
    \E key \in CollectionSensorKeys(Collection) :
        /\ CollWrite(remove_sensor(Collection, key))
        /\ Observe("remove_sensor")
        /\ UNCHANGED <<ops, peer>>
        /\ CollFrame

\* a sensor command of the collection is executed, for the first time
CollUpdate ==
    \E c \in Range(sensor_commands) : \E command \in Executed(cmds[c]) :
        /\ Fresh(cmds[c])
        /\ cmds' = [cmds EXCEPT ![c] = command]
        /\ Observe("update")
        /\ UNCHANGED <<sensor_commands, action_commands, ops, peer>>
        /\ CollFrame

\* Manager(collection=...): Collection.__init__ with the lists of the collection
CollSeed ==
    /\ peer = NoPeer
    /\ commands(Collection) # <<>>
    /\ LET empty == [cmds |-> cmds, sensor_commands |-> <<>>, action_commands |-> <<>>]
           seeded == SetSensorCommands(SetActionCommands(empty, action_commands, 1), sensor_commands, 1)
       IN  /\ cmds' = seeded.cmds
           /\ peer' = [peer EXCEPT !.sensor_commands = seeded.sensor_commands,
                                   !.action_commands = seeded.action_commands]
    /\ Observe("seed")
    /\ UNCHANGED <<sensor_commands, action_commands, ops>>
    /\ CollFrame

\* the manager executes one of its commands, for the first time
PeerChange ==
    \E c \in Range(peer.sensor_commands) \cup Range(peer.action_commands) :
        \E command \in Executed(cmds[c]) :
            /\ \A d \in Range(peer.sensor_commands) \cup Range(peer.action_commands) : Fresh(cmds[d])
            /\ cmds' = [cmds EXCEPT ![c] = command]
            /\ Observe("peer")
            /\ UNCHANGED <<sensor_commands, action_commands, ops, peer>>
            /\ CollFrame

\* an object that was inserted is executed by whoever holds it, for the
\* first time
TemplateChange ==
    \E src \in DOMAIN Templates : \E command \in Executed(cmds[src]) :
        /\ ops > 0
        /\ \A d \in DOMAIN Templates : Fresh(cmds[d])
        /\ cmds' = [cmds EXCEPT ![src] = command]
        /\ Observe("template")
        /\ UNCHANGED <<sensor_commands, action_commands, ops, peer>>
        /\ CollFrame

CollNext ==
    \/ CollAddAction
    \/ CollAddSensor
    \/ CollRemoveAction
    \/ CollRemoveSensor
    \/ CollUpdate
    \/ CollSeed
    \/ PeerChange
    \/ TemplateChange

SpecColl == CollInit /\ [][CollNext]_vars

----------------------------------------------------------------------------
(* Claims about collections, checked under SpecColl *)

\* the sensor commands of a collection that have a key among their sensors
OwnersOf(coll, key) ==
    {i \in 1..Len(coll.sensor_commands) : key \in sensors_by_key(coll.cmds[coll.sensor_commands[i]])}

\* C16: in every state of the collection no two action commands have the
\* same key, and every sensor key that sensors_by_key knows is among the
\* sensors of exactly one sensor command.
C16_KeysHaveOneOwner ==
    /\ \A i, j \in 1..Len(action_commands) :
           cmds[action_commands[i]].key = cmds[action_commands[j]].key => i = j
    /\ \A key \in CollectionSensorKeys(Collection) : Cardinality(OwnersOf(Collection, key)) = 1

\* the action commands of the collection, as their contents in list order
ActionContents == [i \in 1..Len(action_commands) |-> cmds[action_commands[i]]]

\* C17: an add_action_command that follows an add_action_command of the same
\* object leaves the action commands as they were: the same number of
\* entries with the same keys and contents in the same order.
C17_SecondAddChangesNothing ==
    [][\A src \in {"A", "A2"} :
          (last_op = "add_action_command " \o src /\ last_op' = last_op)
              => ActionContents' = ActionContents]_vars

\* A2 was added, and added again: the first copy has left the list
C17_Witness ==
    /\ last_op = "add_action_command A2"
    /\ ops = 2
    /\ action_commands = <<NewId(2)>>
    /\ NewId(1) \notin DOMAIN cmds
    /\ cmds[NewId(2)].required_variables = {"msg"}

\* the commands and sensors a holder of two lists sees
ViewOf(sensors, actions) ==
    [sensor_commands |-> [i \in 1..Len(sensors) |-> cmds[sensors[i]]],
     action_commands |-> [i \in 1..Len(actions) |-> cmds[actions[i]]]]

\* C18: a change of an object that was inserted, or of a copy the seeded
\* manager holds, changes no command and no sensor of the collection; a
\* change of a command of the collection changes none of the manager; and
\* seeding changes none of the collection.
C18_CopiesAreIndependent ==
    [][/\ last_op' \in {"template", "peer", "seed"}
            => ViewOf(sensor_commands, action_commands)' = ViewOf(sensor_commands, action_commands)
       /\ last_op' = "update"
            => ViewOf(peer.sensor_commands, peer.action_commands)'
                   = ViewOf(peer.sensor_commands, peer.action_commands)]_vars

\* the seeded manager has executed its copy of a sensor command, and the
\* collection's command at the same place has no output
C18_Witness ==
    /\ last_op = "peer"
    /\ \E i \in 1..Len(sensor_commands) :
           /\ i <= Len(peer.sensor_commands)
           /\ cmds[peer.sensor_commands[i]].output # NoOutput
           /\ cmds[sensor_commands[i]].output = NoOutput
           /\ SameFields(cmds[sensor_commands[i]], reset(cmds[peer.sensor_commands[i]]))

----------------------------------------------------------------------------
(* The check specification: Collection.check() applied to collections     *)
(* drawn from a bounded set of dependency graphs and sensor orders.       *)

SubsetsUpTo(S, n) == {T \in SUBSET S : Cardinality(T) <= n}

CheckKeys == {"a", "b1", "b2", "c"}

CheckInit ==
    /\ \E reqA \in SubsetsUpTo(CheckKeys, MaxRequired), linkA \in SubsetsUpTo(CheckKeys, 1),
          reqB \in SubsetsUpTo(CheckKeys, 1), linkB \in SubsetsUpTo(CheckKeys, 1),
          reqC \in SubsetsUpTo(CheckKeys, 1), reqX \in SubsetsUpTo({"a"}, 1),
          dyn1, dyn2 \in BOOLEAN :
           cmds = [c \in {"A", "B", "C", "X"} |->
                     CASE c = "A" -> NewCommand("sensor", "A", {}, reqA, linkA, None,
                                         <<NewSensor("a", "text", FALSE)>>)
                       [] c = "B" -> NewCommand("sensor", "B", {}, reqB, linkB, None,
                                         <<NewSensor("b1", "text", dyn1), NewSensor("b2", "text", dyn2)>>)
                       [] c = "C" -> NewCommand("sensor", "C", {}, reqC, {}, None,
                                         <<NewSensor("c", "number", FALSE)>>)
                       [] OTHER   -> NewCommand("action", "X", {}, reqX, {}, NoInterval, <<>>)]
    /\ sensor_commands = <<"A", "B", "C">>
    /\ action_commands = <<"X">>
    /\ last_op = "init"
    /\ check_result = "unchecked"
    /\ config \in {c \in Configs : ~c.disconnect_mode}
    /\ ManagerInit

\* Collection.check()
Check ==
    /\ check_result = "unchecked"
    /\ check_result' = IF CollectionCheckRaises(Collection) THEN "CommandError" ELSE "ok"
    /\ last_op' = "check"
    /\ UNCHANGED <<cmds, sensor_commands, action_commands, manager_vars>>

SpecCheck == CheckInit /\ [][Check]_sensor_vars

\* the sensor-command graph: command -> the commands that own its sub sensors
DependsOn(coll, command) ==
    {get_sensor_command(coll, key) : key \in sub_sensors(coll.cmds[command]) \cap CollectionSensorKeys(coll)}

RECURSIVE ReachableFrom(_, _, _)
ReachableFrom(coll, frontier, seen) ==
    LET next == UNION {DependsOn(coll, command) : command \in frontier}
    IN  IF next \subseteq seen THEN seen ELSE ReachableFrom(coll, next \ seen, seen \cup next)

HasCycle(coll) ==
    \E command \in Range(coll.sensor_commands) : command \in ReachableFrom(coll, {command}, {})

\* C10: Collection.check() raises if and only if the sensor-command graph has
\* a cycle or a sensor command lists a static sensor after a dynamic one
C10_CheckRaisesIffCycle ==
    check_result # "unchecked" =>
        (check_result = "CommandError" <=>
            \/ HasCycle(Collection)
            \/ \E c \in Range(sensor_commands) : MustBeDynamic(cmds[c]))

----------------------------------------------------------------------------
(* The graph specification: one command of a collection is executed on a  *)
(* connected manager, for each of a family of required / linked sensor    *)
(* graphs over three sensor commands.                                     *)

\* A owns a, B owns b, C owns c.  Among the graphs: A requiring its own
\* sensor, cycles of two and of three commands through required and linked
\* sensors, the chain A -> B -> C, and A reaching C both directly and via B
Graphs ==
    {[c \in {"A", "B", "C"} |->
        CASE c = "A" -> NewCommand("sensor", "A", {}, reqA, linkA, NoInterval, <<NewSensor("a", "text", FALSE)>>)
          [] c = "B" -> NewCommand("sensor", "B", {}, reqB, linkB, NoInterval, <<NewSensor("b", "text", FALSE)>>)
          [] OTHER   -> NewCommand("sensor", "C", {}, reqC, linkC, NoInterval, <<NewSensor("c", "text", FALSE)>>)] :
        reqA \in SubsetsUpTo({"a", "b"}, 1), linkA \in SubsetsUpTo({"c"}, 1),
        reqB \in SubsetsUpTo({"c"}, 1), linkB \in SubsetsUpTo({"a", "c"}, 1),
        reqC \in SubsetsUpTo({"a"}, 1), linkC \in SubsetsUpTo({"b", "c"}, 1)}

GraphInit ==
    /\ cmds \in Graphs
    /\ sensor_commands = <<"A", "B", "C">>
    /\ action_commands = <<>>
    /\ last_op = "init"
    /\ check_result = "unchecked"
    /\ config \in {c \in Configs : ~c.disconnect_mode}
    /\ state = handle_connect_success(handle_ping_success(FreshState, 0), 0)
    /\ IdleManager

\* the owner program calls async_execute_command once
GraphStart(t) ==
    /\ ops = 0
    /\ StartOf(t, {ExecuteCommand(c, {}) : c \in {"A", "B", "C"}})

GraphNext ==
    \/ GraphStart("t1")
    \/ \E t \in AllTasks : Acquire(t)
    \/ \E t \in AllTasks : Release(t)
    \/ \E t \in AllTasks : async_disconnect(t)
    \/ \E t \in AllTasks : async_disconnect_terminal(t)
    \/ \E t \in AllTasks : async_reset(t)
    \/ \E t \in AllTasks : async_reset_commands(t)
    \/ \E t \in AllTasks : async_execute(t)
    \/ \E t \in AllTasks : async_execute_terminal(t)
    \/ \E t \in AllTasks : async_execute_reset(t)
    \/ \E t \in AllTasks : async_render_string(t)
    \/ \E t \in AllTasks : async_render_string_poll(t)
    \/ \E t \in AllTasks : async_execute_command(t)
    \/ \E t \in AllTasks : async_execute_command_render(t)
    \/ \E t \in AllTasks : async_execute_command_execute(t)
    \/ \E t \in AllTasks : async_execute_command_poll(t)
    \/ \E t \in AllTasks : async_execute_commands(t)
    \/ \E t \in AllTasks : async_execute_commands_command(t)
    \/ \E t \in AllTasks : async_poll_sensors(t)
    \/ \E t \in AllTasks : async_poll_sensors_batch(t)

\* every transport call returns and the event loop runs the task
SpecGraph == GraphInit /\ [][GraphNext]_vars /\ WF_vars(GraphNext)

\* the commands task t is rendering or executing, outermost first
Executing(t) ==
    LET frames == SelectSeq(stack[t], LAMBDA frame : frame.fn = "async_execute_command")
    IN  [i \in 1..Len(frames) |-> frames[i].command]

\* a cycle of the graph can be reached from the command
CycleReachable(coll, command) ==
    \E c \in ReachableFrom(coll, {command}, {}) \cup {command} :
        c \in ReachableFrom(coll, {c}, {})

\* C25: the execution of a command ends; no command is entered again
\* while it is being rendered or executed; and Command.check raises for every
\* command from which a cycle of the graph can be reached
C25_ExecutionTerminates ==
    /\ [](\A t \in AllTasks : \A i, j \in 1..Len(Executing(t)) :
             Executing(t)[i] = Executing(t)[j] => i = j)
    /\ [](\A c \in Range(sensor_commands) :
             CycleReachable(Collection, c) => CommandCheckRaises(Collection, c))
    /\ [](\A t \in AllTasks : stack[t] # <<>> => <>(stack[t] = <<>>))

\* in the chain A -> B -> C the transport executes C for the rendering of B
\* for the rendering of A
C25_Witness ==
    \E t \in AllTasks :
        /\ Executing(t) = <<"A", "B", "C">>
        /\ At(t, "async_execute", "terminal")
        /\ ~CommandCheckRaises(Collection, "A")

----------------------------------------------------------------------------
(* The request specification: the operations that move state.request,     *)
(* called on a manager in each of the states it can be in between two     *)
(* operations, with a clock that runs past the request timeouts.          *)

\* the states and commands of a manager after __init__; after
\* handle_turn_on(); after ping and connect; and after ping, connect and a
\* restart or turn_off whose action returned exit code 0
RequestStates ==
    LET connected == handle_connect_success(handle_ping_success(FreshState, 0), 0)
        Ran(action) == [Catalog EXCEPT ![action] = handle_success(@, CommandOutput(0, <<>>, 0))]
    IN  {<<FreshState, Catalog>>,
         <<handle_turn_on(FreshState, 0), Catalog>>,
         <<connected, Catalog>>,
         <<handle_restart(handle_disconnect(connected), 0), Ran(RESTART)>>,
         <<handle_turn_off(handle_disconnect(connected), 0), Ran(TURN_OFF)>>}

\* the configurations, with request timeouts of one second and of two
RequestConfigs ==
    {[c EXCEPT !.request_timeouts = [r \in DOMAIN @ |-> timeout]] :
        c \in Configs, timeout \in {1, 2}}

\* (turn_off succeeds only on a manager that allows it)
RequestInit ==
    /\ config \in RequestConfigs
    /\ \E pair \in RequestStates :
          /\ pair[1].request = TURN_OFF => config.allow_turn_off
          /\ state = pair[1]
          /\ cmds = pair[2]
    /\ sensor_commands = <<"c2", "c1">>
    /\ action_commands = <<"a1", TURN_OFF, RESTART>>
    /\ last_op = "init"
    /\ check_result = "unchecked"
    /\ IdleManager

RequestCalls ==
    {Frame(fn, TRUE) : fn \in {"async_update", "async_ping", "async_connect",
                               "async_turn_off", "async_restart"}}

StartRequest(t) == StartOf(t, RequestCalls)

\* the owner calls state.handle_turn_on(), whatever the request is
OwnerTurnOn ==
    /\ ops < MaxOps
    /\ \A t \in AllTasks : ~Running(t)
    /\ state' = handle_turn_on(state, now)
    /\ ops' = ops + 1
    /\ last_op' = "owner"
    /\ UNCHANGED <<catalog_vars, check_result, now, config, lock_vars, stack, ret, _disconnector, peer>>

RequestNext ==
    \/ StartRequest("t1")
    \/ \E t \in AllTasks : Acquire(t)
    \/ \E t \in AllTasks : Release(t)
    \/ \E t \in AllTasks : async_update(t)
    \/ \E t \in AllTasks : async_update_try(t)
    \/ \E t \in AllTasks : async_update_ping(t)
    \/ \E t \in AllTasks : async_update_connect(t)
    \/ \E t \in AllTasks : async_update_batch(t)
    \/ \E t \in AllTasks : async_ping(t)
    \/ \E t \in AllTasks : async_ping_reset(t)
    \/ \E t \in AllTasks : async_connect(t)
    \/ \E t \in AllTasks : async_connect_terminal(t)
    \/ \E t \in AllTasks : async_connect_reset(t)
    \/ \E t \in AllTasks : async_disconnect(t)
    \/ \E t \in AllTasks : async_disconnect_terminal(t)
    \/ \E t \in AllTasks : async_reset(t)
    \/ \E t \in AllTasks : async_reset_commands(t)
    \/ \E t \in AllTasks : async_execute(t)
    \/ \E t \in AllTasks : async_execute_connect(t)
    \/ \E t \in AllTasks : async_execute_terminal(t)
    \/ \E t \in AllTasks : async_execute_reset(t)
    \/ \E t \in AllTasks : async_render_string(t)
    \/ \E t \in AllTasks : async_render_string_poll(t)
    \/ \E t \in AllTasks : async_execute_command(t)
    \/ \E t \in AllTasks : async_execute_command_render(t)
    \/ \E t \in AllTasks : async_execute_command_execute(t)
    \/ \E t \in AllTasks : async_execute_command_poll(t)
    \/ \E t \in AllTasks : async_execute_commands(t)
    \/ \E t \in AllTasks : async_execute_commands_command(t)
    \/ \E t \in AllTasks : async_poll_sensors(t)
    \/ \E t \in AllTasks : async_poll_sensors_batch(t)
    \/ \E t \in AllTasks : async_run_action(t)
    \/ \E t \in AllTasks : async_run_action_command(t)
    \/ \E t \in AllTasks : async_turn_off(t)
    \/ \E t \in AllTasks : async_turn_off_action(t)
    \/ \E t \in AllTasks : async_turn_off_disconnect(t)
    \/ \E t \in AllTasks : _async_disconnect_later(t)
    \/ \E t \in AllTasks : _async_disconnect_later_sleep(t)
    \/ \E t \in AllTasks : _async_disconnect_later_disconnect(t)
    \/ OwnerTurnOn
    \/ Tick

SpecRequest == RequestInit /\ [][RequestNext]_vars

----------------------------------------------------------------------------
(* Claims about the request, checked under SpecRequest *)

\* the step of task t in which the transport's ping returns / the reset
\* after a failed ping is done / the transport's connect returns
PingSucceeds(t) ==
    At(t, "async_ping", "run") /\ last_op' = t /\ stack'[t] = WithTop(t, Done(t, NoResult))
PingFailed(t) == At(t, "async_ping", "reset") /\ last_op' = t /\ stack'[t] # stack[t]
ConnectSucceeds(t) ==
    At(t, "async_connect", "terminal") /\ last_op' = t /\ stack'[t] = WithTop(t, Done(t, NoResult))

\* the step in which turn_off or restart records its request
PowerRecords(t) == PowerFrame(t, "disconnect") /\ last_op' = t /\ stack'[t] # stack[t]

\* C26: a successful ping turns a TurnOn request into Connect, a successful
\* connect ends a Connect request, a failed ping turns Restart into TurnOn
\* and ends TurnOff; the request changes in no other step than these, the
\* explicit calls (turn_off, restart, state.handle_turn_on) and a
\* state.update() in which the request has expired
C26_RequestProgression ==
    [][/\ \A t \in AllTasks :
           /\ (PingSucceeds(t) /\ state.request = TURN_ON) => state'.request = CONNECT
           /\ (ConnectSucceeds(t) /\ state.request = CONNECT) => state'.request = None
           /\ (PingFailed(t) /\ state.request = RESTART) => state'.request = TURN_ON
           /\ (PingFailed(t) /\ state.request = TURN_OFF) => state'.request = None
       /\ state'.request # state.request
            => \/ \E t \in AllTasks :
                     \/ PingSucceeds(t) /\ state.request = TURN_ON /\ state'.request = CONNECT
                     \/ ConnectSucceeds(t) /\ state.request = CONNECT /\ state'.request = None
                     \/ PingFailed(t) /\ state.request = RESTART /\ state'.request = TURN_ON
                     \/ PingFailed(t) /\ state.request = TURN_OFF /\ state'.request = None
                     \/ PowerRecords(t) /\ state'.request = PowerRequest(Top(t).fn)
                     \/ CallsStateUpdate(t) /\ request_expired(state, now) /\ state'.request = None
               \/ last_op' = "owner" /\ state'.request = TURN_ON]_vars

\* a ping that failed while a Restart request was pending has made it TurnOn
C26_Witness ==
    /\ stack["t1"] # <<>>
    /\ Top("t1").fn = "async_ping"
    /\ Top("t1").pc = "rel"
    /\ Top("t1").entry_request = RESTART
    /\ state.request = TURN_ON
    /\ ~state.online

\* C27: the transition of a failed ping sets online to false, ends a TurnOff
\* request, turns a Restart request into TurnOn (never into none), leaves
\* the requests TurnOn, Connect and none as they are, and leaves the error
\* flag as it is
C27_PingErrorTransition ==
    [][\A t \in AllTasks : PingFailed(t) =>
          /\ ~state'.online
          /\ state'.request = CASE state.request = TURN_OFF -> None
                                [] state.request = RESTART -> TURN_ON
                                [] OTHER -> state.request
          /\ state'.error = state.error
          /\ state'.connected = state.connected]_vars

\* a ping has failed while the error flag was set and a Connect request was
\* pending: the flag is still set, the request still pending, online false
C27_Witness ==
    /\ stack["t1"] # <<>>
    /\ Top("t1").fn = "async_ping"
    /\ Top("t1").pc = "rel"
    /\ Top("t1").res.exc = "OfflineError"
    /\ Top("t1").entry_request = CONNECT
    /\ state.request = CONNECT
    /\ state.error
    /\ ~state.online

\* a step of task t in which async_update calls state.update(): at its
\* start, and after a batch that failed and set state.error
StateUpdateCalled(t) ==
    /\ last_op' = t
    /\ \/ At(t, "async_update", "run")
       \/ At(t, "async_update", "try") /\ ret[t].exc = "ExecutionError" /\ state.error

\* more than the request's timeout has passed since the request last changed
TimedOut ==
    /\ state.request # None
    /\ now - state._request_timestamp > config.request_timeouts[state.request]

\* C28: state.update() clears the error flag and ends the request exactly
\* when more than its timeout has passed since the request last changed
\* value; passing time alone changes nothing, a timed-out Restart or TurnOff
\* request still makes connect raise before the transport is called, and an
\* assignment of the value the request already has does not restart the
\* timeout
C28_ExpiryOnlyInUpdate ==
    [][/\ \A t \in AllTasks :
           /\ StateUpdateCalled(t) =>
                 /\ ~state'.error
                 /\ state'.request = IF TimedOut THEN None ELSE state.request
           /\ (At(t, "async_connect", "run") /\ last_op' = t
                  /\ ~state.connected /\ shutting_down(state)) =>
                 /\ state' = state
                 /\ stack'[t] = WithTop(t, Done(t, Raised("ConnectError", None)))
       /\ last_op' = "clock" => state' = state
       /\ last_op' = "owner" => state'.request = TURN_ON
       /\ state'._request_timestamp =
              IF state'.request = state.request THEN state._request_timestamp ELSE now]_vars

\* after two seconds an update has just called state.update(), which ended
\* the request, and is about to ping
C28_Witness ==
    /\ Len(stack["t1"]) = 2
    /\ stack["t1"][1].fn = "async_update"
    /\ stack["t1"][1].pc = "ping"
    /\ stack["t1"][2].pc = "acq"
    /\ ops = 1
    /\ state.request = None
    /\ state._request_timestamp = 2
    /\ now = 2

----------------------------------------------------------------------------
(* state.py and event.py, attribute by attribute: the state specification *)

STATE_NAMES == {"online", "connected", "request", "error"}

\* what a subscriber called with the State object reads from it
Snapshot(self) == [name \in STATE_NAMES |-> self[name]]

\* Event.notify called by State.__setattr__: every subscriber of the list is
\* called in list order with the State object; calls is the history of the
\* notify calls, each with the subscribers it called and what they read
notify(self) ==
    [self EXCEPT !.on_change.calls =
        Append(@, [subscribers |-> self.on_change._subscribers, seen |-> Snapshot(self)])]

\* mutant: the subscribers are called before the attribute is written
SetAttr_NotifiesFirst(self, name, value, time) ==
    LET prev_value == self[name]
        assigned == [self EXCEPT ![name] = value]
    IN  IF name \notin STATE_NAMES \/ value = prev_value THEN assigned
        ELSE LET stamped == IF name = "request"
                            THEN [assigned EXCEPT !._request_timestamp = time]
                            ELSE assigned
             IN  [stamped EXCEPT !.on_change = notify(self).on_change]

\* State.__setattr__; the assignment of _request_timestamp inside it is an
\* assignment of a name that is not in STATE_NAMES and returns at once
__setattr__(self, name, value, time) ==
    LET prev_value == self[name]
        assigned == [self EXCEPT ![name] = value]
    IN  IF name \notin STATE_NAMES \/ value = prev_value THEN assigned
        ELSE LET stamped == IF name = "request"
                            THEN [assigned EXCEPT !._request_timestamp = time]
                            ELSE assigned
             IN  notify(stamped)

\* class State with its defaults, and State.__init__
Event == [_subscribers |-> <<>>, calls |-> <<>>]
State__init__(time) ==
    LET self == [online |-> FALSE, connected |-> FALSE, request |-> None, error |-> FALSE,
                 _request_timestamp |-> None, on_change |-> None]
    IN  __setattr__(__setattr__(self, "_request_timestamp", time, time), "on_change", Event, time)

State_update(self, time) ==
    LET a == IF self.error THEN __setattr__(self, "error", FALSE, time) ELSE self
    IN  IF request_expired(a, time) THEN __setattr__(a, "request", None, time) ELSE a

State_handle_ping_error(self, time) ==
    LET a == IF self.request = TURN_OFF THEN __setattr__(self, "request", None, time) ELSE self
        b == IF a.request = RESTART THEN __setattr__(a, "request", TURN_ON, time) ELSE a
    IN  __setattr__(b, "online", FALSE, time)

State_handle_ping_success(self, time) ==
    LET a == IF self.request = TURN_ON THEN __setattr__(self, "request", CONNECT, time) ELSE self
    IN  __setattr__(a, "online", TRUE, time)

State_handle_connect_error(self, time) == __setattr__(self, "error", TRUE, time)

State_handle_connect_success(self, time) ==
    LET a == IF self.request = CONNECT THEN __setattr__(self, "request", None, time) ELSE self
    IN  __setattr__(a, "connected", TRUE, time)

State_handle_execute_error(self, time) == __setattr__(self, "error", TRUE, time)
State_handle_disconnect(self, time) == __setattr__(self, "connected", FALSE, time)
State_handle_turn_on(self, time) == __setattr__(self, "request", TURN_ON, time)
State_handle_turn_off(self, time) == __setattr__(self, "request", TURN_OFF, time)
State_handle_restart(self, time) == __setattr__(self, "request", RESTART, time)

StateInit ==
    /\ cmds = Catalog
    /\ sensor_commands = <<"c2", "c1">>
    /\ action_commands = <<"a1", TURN_OFF, RESTART>>
    /\ last_op = "init"
    /\ check_result = "unchecked"
    /\ config \in Configs
    /\ IdleManager
    /\ state = State__init__(0)

\* a call of a method of State or of its Event, by the manager or by the owner
StateCall(method, self) ==
    /\ ops < MaxCalls
    /\ state' = self
    /\ ops' = ops + 1
    /\ last_op' = method
    /\ UNCHANGED <<catalog_vars, check_result, now, config, lock_vars, stack, ret, _disconnector, peer>>

\* Event.subscribe, and the callback it returned (Event.unsubscribe)
subscribe(subscriber) ==
    /\ Len(state.on_change._subscribers) < MaxSubscribers
    /\ StateCall("subscribe", [state EXCEPT !.on_change._subscribers = Append(@, subscriber)])

unsubscribe(subscriber) ==
    /\ subscriber \in Range(state.on_change._subscribers)
    /\ StateCall("unsubscribe",
                 [state EXCEPT !.on_change._subscribers = RemoveFirst(@, subscriber)])

StateNext ==
    \/ StateCall("update", State_update(state, now))
    \/ StateCall("handle_ping_error", State_handle_ping_error(state, now))
    \/ StateCall("handle_ping_success", State_handle_ping_success(state, now))
    \/ StateCall("handle_connect_error", State_handle_connect_error(state, now))
    \/ StateCall("handle_connect_success", State_handle_connect_success(state, now))
    \/ StateCall("handle_execute_error", State_handle_execute_error(state, now))
    \/ StateCall("handle_disconnect", State_handle_disconnect(state, now))
    \/ StateCall("handle_turn_on", State_handle_turn_on(state, now))
    \/ StateCall("handle_turn_off", State_handle_turn_off(state, now))
    \/ StateCall("handle_restart", State_handle_restart(state, now))
    \/ \E subscriber \in {"s1", "s2"} : subscribe(subscriber)
    \/ \E subscriber \in {"s1", "s2"} : unsubscribe(subscriber)
    \/ Tick

SpecState == StateInit /\ [][StateNext]_vars

----------------------------------------------------------------------------
(* Claims about on_change, checked under SpecState *)

\* the notify calls made in this step
Notified == SubSeq(state'.on_change.calls, Len(state.on_change.calls) + 1,
                   Len(state'.on_change.calls))

\* the named fields in which two snapshots differ
Differ(a, b) == {name \in STATE_NAMES : a[name] # b[name]}

\* the order in which every method of State assigns the fields it assigns
AssignedAt(name) ==
    CASE name = "error" -> 1 [] name = "request" -> 2 [] OTHER -> 3

\* C29: the notify calls of a step append to those made before; there is one
\* for every named field whose value the step changed and none for anything
\* else; each is made when one more field holds its new value, in the order
\* of the assignments, so that the last one shows the state the step leaves;
\* and each calls the subscribers of that moment
C29_NotifiesEveryChange ==
    [][LET seen(i) == IF i = 0 THEN Snapshot(state) ELSE Notified[i].seen
       IN  /\ Len(state'.on_change.calls) >= Len(state.on_change.calls)
           /\ SubSeq(state'.on_change.calls, 1, Len(state.on_change.calls))
                 = state.on_change.calls
           /\ Len(Notified) = Cardinality(Differ(Snapshot(state), Snapshot(state')))
           /\ Notified # <<>> => seen(Len(Notified)) = Snapshot(state')
           /\ \A i \in 1..Len(Notified) :
                 /\ Cardinality(Differ(seen(i - 1), seen(i))) = 1
                 /\ Differ(seen(i - 1), seen(i)) \subseteq Differ(Snapshot(state), Snapshot(state'))
                 /\ Notified[i].subscribers = state.on_change._subscribers
                 /\ \A j \in 1..(i - 1) :
                       \A m \in Differ(seen(j - 1), seen(j)), n \in Differ(seen(i - 1), seen(i)) :
                          AssignedAt(m) < AssignedAt(n)]_vars

\* a successful ping while a TurnOn request was pending made two assignments
\* that changed a value, and the two subscribers were called for the request
\* first and for online second
C29_Witness ==
    /\ last_op = "handle_ping_success"
    /\ Len(state.on_change.calls) = 3
    /\ LET calls == state.on_change.calls
       IN  /\ calls[3].subscribers = <<"s1", "s2">>
           /\ calls[3].seen = Snapshot(state)
           /\ calls[2].seen = [Snapshot(state) EXCEPT !.online = FALSE]
           /\ calls[1].seen.request = TURN_ON
           /\ state.request = CONNECT
           /\ state.online

----------------------------------------------------------------------------
(* Claims about the commands an update executes, checked under Spec *)

\* the step in which the async_update of task t hands its commands to the batch
UpdateBatch(t) ==
    /\ last_op' = t
    /\ stack[t] # <<>>
    /\ Top(t).fn = "async_update"
    /\ \/ Calls_(t, "try", "async_execute_commands")
       \/ Calls_(t, "batch", "async_execute_commands")

\* the commands of that batch
Batched(t) == Range(stack'[t][Len(stack'[t])].list)

\* without an output a command is due unless its last error is a
\* CommandError; with an output it is due when it has an interval and more
\* than the interval has passed since the output's timestamp
IsDue(command) ==
    \/ command.output = NoOutput /\ command.error # "CommandError"
    \/ /\ command.output # NoOutput
       /\ command.interval # NoInterval
       /\ now - command.output[1].timestamp > command.interval

----------------------------------------------------------------------------
(* Claims about a command that fails, checked under Spec *)

\* the step in which the async_execute_command of task t, at pc, raises
ExecuteCommandRaises(t, pc) ==
    /\ At(t, "async_execute_command", pc)
    /\ last_op' = t
    /\ stack'[t] = WithTop(t, Done(t, stack'[t][Len(stack[t])].res))
    /\ stack'[t][Len(stack[t])].res.exc # None

\* C31: when the rendering or the execution (its connect included) of a
\* sensor command raises, async_execute_command leaves the error stored on
\* the command, no output, and no value on any sensor of the command
C31_FailureStoresError ==
    [][\A t \in AllTasks : \A pc \in {"render", "execute"} :
          (ExecuteCommandRaises(t, pc) /\ cmds[Top(t).command].kind = "sensor") =>
              LET command == cmds'[Top(t).command]
              IN  /\ command.error = stack'[t][Len(stack[t])].res.exc
                  /\ command.output = NoOutput
                  /\ \A i \in 1..Len(command.sensors) : command.sensors[i].value = None]_vars

----------------------------------------------------------------------------
(* Claims about linked sensors, checked under SpecGraph *)

\* C32: when the transport's execute returned, async_execute_command stores
\* the output, updates the command's sensors from it and only then calls the
\* poll of exactly the command's linked sensors, still holding the lock; when
\* the execution raised it ends without a poll; and the linked sensors of a
\* sensor command never include a key of its own sensors
C32_LinkedPolledAfterSuccess ==
    /\ [][\A t \in AllTasks :
             (At(t, "async_execute_command", "execute") /\ last_op' = t) =>
                 LET key == Top(t).command
                 IN  IF ret[t].exc = None
                     THEN /\ cmds'[key].output = ret[t].output
                          /\ cmds'[key].error = None
                          /\ cmds'[key].sensors
                                = update_sensors([cmds[key] EXCEPT !.output = ret[t].output]).sensors
                          /\ Calls_(t, "poll", "async_poll_sensors")
                          /\ Range(stack'[t][Len(stack'[t])].keys) = linked_sensors(cmds'[key])
                          /\ _task' = t
                     ELSE /\ stack'[t] = WithTop(t, Done(t, ret[t]))
                          /\ cmds'[key].output = NoOutput]_vars
    /\ [](\A t \in AllTasks : \A i \in 1..Len(stack[t]) :
            (stack[t][i].fn = "async_execute_command" /\ stack[t][i].pc \in {"execute", "poll"})
                => _task = t)
    /\ [](\A key \in Range(sensor_commands) :
            linked_sensors(cmds[key]) \cap sensors_by_key(cmds[key]) = {})

\* the command B, which links the sensor c, has its output and the value of
\* its sensor, and the poll of c has been called and has not yet begun
C32_Witness ==
    \E t \in AllTasks :
       /\ Len(stack[t]) = 2
       /\ stack[t][1].fn = "async_execute_command"
       /\ stack[t][1].pc = "poll"
       /\ stack[t][1].command = "B"
       /\ stack[t][2].fn = "async_poll_sensors"
       /\ stack[t][2].pc = "acq"
       /\ stack[t][2].keys = <<"c">>
       /\ cmds["B"].output # NoOutput
       /\ cmds["B"].sensors[1].value # None
       /\ cmds["C"].output = NoOutput

----------------------------------------------------------------------------
(* Claims about exit codes, checked under SpecSensor *)

\* C33: a sensor command whose output has an exit code other than 0 has no
\* value on any of its sensors or their children
C33_NonZeroExitClears ==
    \A c \in DOMAIN cmds :
        (cmds[c].output # NoOutput /\ cmds[c].output[1].code # 0)
            => \A sensor \in SensorsOf(cmds[c]) : sensor.value = None


----------------------------------------------------------------------------
(* The layout specification: sensor commands with several sensors are     *)
(* inserted into a collection that starts empty, sensors are removed by   *)
(* key, and the commands of the collection are executed.  cmds holds the  *)
(* objects of the collection.                                             *)

\* the commands callers insert: a static sensor before two dynamic ones,
\* and a static sensor before one dynamic one; both pass the ordering rule
LayoutTemplates ==
    [c \in {"P", "Q"} |->
        IF c = "P"
        THEN NewCommand("sensor", c, {}, {}, {}, NoInterval,
                 <<NewSensor("s", "text", FALSE), NewSensor("d1", "number", TRUE),
                   NewSensor("d2", "number", TRUE)>>)
        ELSE NewCommand("sensor", c, {}, {}, {}, NoInterval,
                 <<NewSensor("t", "text", FALSE), NewSensor("d", "number", TRUE)>>)]

\* what the commands print: a line, then rows of an id and two fields
LayoutStdouts ==
    { <<<<"x">>, <<"a", " 7", "12">>>>,
      <<<<"a", " 7", "12">>>>,
      <<<<"x">>>> }

LayoutInit ==
    /\ cmds = [c \in {} |-> LayoutTemplates["P"]]
    /\ sensor_commands = <<>>
    /\ action_commands = <<>>
    /\ last_op = "init"
    /\ check_result = "unchecked"
    /\ config \in {c \in Configs : ~c.disconnect_mode}
    /\ ManagerInit

LayoutWrite(coll) ==
    /\ cmds' = [c \in Range(coll.sensor_commands) |-> coll.cmds[c]]
    /\ sensor_commands' = coll.sensor_commands
    /\ action_commands' = coll.action_commands

LayoutAdd ==
    \E src \in DOMAIN LayoutTemplates :
        /\ ops < MaxCopies
        /\ LayoutWrite(add_sensor_command(Collection, NewId(ops + 1), LayoutTemplates[src]))
        /\ ops' = ops + 1
        /\ Observe("add_sensor_command")
        /\ peer' = peer
        /\ CollFrame

LayoutRemove ==
    \E key \in CollectionSensorKeys(Collection) :
        /\ LayoutWrite(remove_sensor(Collection, key))
        /\ Observe(key)
        /\ UNCHANGED <<ops, peer>>
        /\ CollFrame

\* a command of the collection is executed and prints one of the stdouts
LayoutExecute ==
    \E c \in Range(sensor_commands), stdout \in LayoutStdouts :
        /\ cmds' = [cmds EXCEPT ![c] = handle_success(@, CommandOutput(0, stdout, 0))]
        /\ Observe("execute")
        /\ UNCHANGED <<sensor_commands, action_commands, ops, peer>>
        /\ CollFrame

LayoutNext ==
    \/ LayoutAdd
    \/ LayoutRemove
    \/ LayoutExecute

SpecLayout == LayoutInit /\ [][LayoutNext]_vars

----------------------------------------------------------------------------
(* Claims about the layout of a command's sensors, checked under SpecLayout *)

\* remove_sensor(key) has just run on the collection
RemovedKey(key) ==
    /\ key \in CollectionSensorKeys(Collection)
    /\ last_op' = key
    /\ sensor_commands' = remove_sensor(Collection, key).sensor_commands

\* C34: remove_sensor(k) puts a placeholder at the index of k, k is unknown
\* to every lookup afterwards, every other sensor of the command keeps its
\* index and is given the same line or fields of every stdout as before the
\* removal, and the command leaves the collection exactly when it has no
\* sensor but placeholders
C34_RemovalKeepsLayout ==
    [][\A key \in {"s", "t", "d", "d1", "d2", "d_a", "d1_a", "d2_a"} :
          RemovedKey(key) =>
              LET c == get_sensor_command(Collection, key)
                  before == cmds[c]
                  after == remove_sensor(Collection, key).cmds[c]
              IN  /\ key \notin CollectionSensorKeys([Collection EXCEPT !.cmds[c] = after])
                  /\ Len(after.sensors) = Len(before.sensors)
                  /\ \A i \in 1..Len(before.sensors) :
                         IF before.sensors[i].key = key
                         THEN after.sensors[i].key = PLACEHOLDER_KEY
                         ELSE /\ after.sensors[i] = before.sensors[i]
                              /\ \A stdout \in LayoutStdouts :
                                     handle_success(after, CommandOutput(0, stdout, 0)).sensors[i]
                                         = handle_success(before, CommandOutput(0, stdout, 0)).sensors[i]
                  /\ (c \in Range(sensor_commands'))
                         <=> (\E i \in 1..Len(after.sensors) : after.sensors[i].key # PLACEHOLDER_KEY)
     ]_vars

\* C35: no sensor command of the collection has a sensor that is not
\* dynamic, a placeholder included, after a dynamic one
C35_OrderingRuleKept ==
    \A c \in Range(sensor_commands) : ~MustBeDynamic(cmds[c])

----------------------------------------------------------------------------
(* Claims about the scheduled disconnect, checked under Spec *)

\* the tasks of _async_disconnect_later that have not ended
LiveDisconnectors == {d \in Disconnectors : stack[d] # <<>>}

\* async_execute's finally clause has just scheduled a disconnect
Scheduled(t) ==
    /\ last_op' = t
    /\ \/ At(t, "async_execute", "terminal")
       \/ At(t, "async_execute", "reset")
    /\ stack'[t] # <<>>
    /\ stack'[t][Len(stack'[t])].fn = "async_execute"
    /\ stack'[t][Len(stack'[t])].pc = "rel"
    /\ config.disconnect_mode
    /\ state'.connected

\* C36: in disconnect mode at most one scheduled disconnect task is live and
\* it is the one the manager holds until its body has ended; a new one is scheduled in place of the
\* previous one, which has not started; while a caller's operation holds the
\* lock the scheduled task has not begun, so the executes of one operation
\* are followed by one disconnect, after the operation
C36_SingleDisconnect ==
    /\ [](/\ Cardinality(LiveDisconnectors) <= 1
          /\ \A d \in LiveDisconnectors : d = _disconnector \/ stack[d][1].pc = "rel")
    /\ [](\A d \in LiveDisconnectors, t \in Tasks :
              Holds(t) => stack[d] = <<Frame("_async_disconnect_later", TRUE)>>)
    /\ [][\A t \in Tasks :
              Scheduled(t) =>
                  /\ _disconnector' \in Disconnectors
                  /\ stack'[_disconnector'] = <<Frame("_async_disconnect_later", TRUE)>>
                  /\ \A d \in Disconnectors \ {_disconnector'} : stack'[d] = <<>>]_vars

\* the second execute of an update has scheduled the disconnect again: c1
\* was executed for the rendering of c2, whose execute has just returned
C36_Witness ==
    \E t \in Tasks :
        /\ config.disconnect_mode
        /\ At(t, "async_execute", "rel")
        /\ stack[t][1].fn = "async_update"
        /\ Top(t).res.output # NoOutput
        /\ \E i \in 1..Len(stack[t]) :
               stack[t][i].fn = "async_execute_command" /\ stack[t][i].command = "c2"
        /\ cmds["c1"].output # NoOutput
        /\ state.connected
        /\ LiveDisconnectors = {_disconnector}

\* C38: while the scheduled disconnect task waits out the delay it does not
\* hold the manager lock, so that a task that calls an operation during the
\* delay is not kept waiting for the lock
C38_SleepsWithoutLock ==
    \A d \in Disconnectors :
        At(d, "_async_disconnect_later", "sleep")
            => /\ _task # d
               /\ \A t \in Tasks : (stack[t] # <<>> /\ Top(t).pc = "acq") => CanAcquire(t)

----------------------------------------------------------------------------
(* The cancellation specification: two tasks call update, execute and     *)
(* disconnect, and a caller's task may be cancelled where it is suspended. *)
(* Every task that can take a step eventually takes one: the transport's  *)
(* calls and the sleep return, and the event loop runs what is ready.     *)

\* the calls the first task makes
CancelCalls ==
    {Frame(fn, TRUE) : fn \in {"async_update", "async_execute", "async_disconnect"}}

\* where the event loop can deliver a CancelledError to task t: at a call of
\* the transport, or in asyncio.Lock.acquire (the owner's nested acquire
\* does not wait)
Suspended(t) ==
    /\ stack[t] # <<>>
    /\ \/ Top(t).pc = "acq" /\ NeedsMutex(t)
       \/ Top(t).pc # "acq" /\ <<Top(t).fn, Top(t).pc>> \in AwaitPoints

\* the try statement of async_execute is on the stack of t
InTry(t) ==
    \E i \in 1..Len(stack[t]) :
        stack[t][i].fn = "async_execute" /\ stack[t][i].pc \in {"terminal", "reset"}

\* mutant: the wrappers leave the lock as it is
DepthAfterCancel_Kept(t) == _depth

\* the depth after every "async with synchronizer.lock" on the stack of t has
\* called AsyncRLock.release
DepthAfterCancel(t) ==
    _depth - Cardinality({i \in 1..Len(stack[t]) : stack[t][i].locked /\ stack[t][i].pc # "acq"})

\* Task.cancel() on a caller: the CancelledError leaves every coroutine of
\* the task (no except clause of the manager catches it), the finally
\* clause of async_execute runs, and every wrapper releases the lock
Cancel(t) ==
    /\ Suspended(t)
    /\ \A u \in AllTasks : ~Running(u)
    /\ _depth' = DepthAfterCancel(t)
    /\ IF _task = t /\ DepthAfterCancel(t) = 0
       THEN _locked' = FALSE /\ _task' = None
       ELSE UNCHANGED <<_locked, _task>>
    /\ IF InTry(t)
       THEN Finally([stack EXCEPT ![t] = <<>>], state)
       ELSE stack' = [stack EXCEPT ![t] = <<>>] /\ _disconnector' = _disconnector
    /\ ret' = [ret EXCEPT ![t] = Raised("CancelledError", Top(t).fn)]
    /\ last_op' = "cancel"
    /\ UNCHANGED <<catalog_vars, check_result, state, now, config, ops, peer>>

\* the steps of the tasks
Progress ==
    \/ \E t \in AllTasks : Acquire(t)
    \/ \E t \in AllTasks : Release(t)
    \/ \E t \in AllTasks : async_update(t)
    \/ \E t \in AllTasks : async_update_try(t)
    \/ \E t \in AllTasks : async_update_ping(t)
    \/ \E t \in AllTasks : async_update_connect(t)
    \/ \E t \in AllTasks : async_update_batch(t)
    \/ \E t \in AllTasks : async_ping(t)
    \/ \E t \in AllTasks : async_ping_reset(t)
    \/ \E t \in AllTasks : async_connect(t)
    \/ \E t \in AllTasks : async_connect_terminal(t)
    \/ \E t \in AllTasks : async_connect_reset(t)
    \/ \E t \in AllTasks : async_disconnect(t)
    \/ \E t \in AllTasks : async_disconnect_terminal(t)
    \/ \E t \in AllTasks : async_reset(t)
    \/ \E t \in AllTasks : async_reset_commands(t)
    \/ \E t \in AllTasks : async_execute(t)
    \/ \E t \in AllTasks : async_execute_connect(t)
    \/ \E t \in AllTasks : async_execute_terminal(t)
    \/ \E t \in AllTasks : async_execute_reset(t)
    \/ \E t \in AllTasks : async_render_string(t)
    \/ \E t \in AllTasks : async_render_string_poll(t)
    \/ \E t \in AllTasks : async_execute_command(t)
    \/ \E t \in AllTasks : async_execute_command_render(t)
    \/ \E t \in AllTasks : async_execute_command_execute(t)
    \/ \E t \in AllTasks : async_execute_command_poll(t)
    \/ \E t \in AllTasks : async_execute_commands(t)
    \/ \E t \in AllTasks : async_execute_commands_command(t)
    \/ \E t \in AllTasks : async_poll_sensors(t)
    \/ \E t \in AllTasks : async_poll_sensors_batch(t)
    \/ \E t \in AllTasks : _async_disconnect_later(t)
    \/ \E t \in AllTasks : _async_disconnect_later_sleep(t)
    \/ \E t \in AllTasks : _async_disconnect_later_disconnect(t)

CancelStart(t) ==
    /\ t = "t2" => stack["t1"] # <<>>
    /\ StartOf(t, IF t = "t1" THEN CancelCalls ELSE ConcurrentCalls)

CancelNext ==
    \/ \E t \in Tasks : CancelStart(t)
    \/ \E t \in Tasks : Cancel(t)
    \/ Progress

SpecCancel == Init /\ [][CancelNext]_vars /\ WF_vars(Progress)

----------------------------------------------------------------------------
(* Claims about cancellation and progress, checked under SpecCancel *)

\* the transport's execute is in flight for task t
ExecuteInFlight(t) == At(t, "async_execute", "terminal")

\* C37: in disconnect mode, once the transport's execute has been called the
\* manager becomes disconnected, whether the call returns, times out, raises
\* or is cancelled, and when no operation is started any more it stays
\* disconnected
C37_EventuallyDisconnected ==
    /\ (config.disconnect_mode /\ \E t \in Tasks : ExecuteInFlight(t)) ~> ~state.connected
    /\ config.disconnect_mode => <>[](~state.connected /\ LiveDisconnectors = {})

\* an execute was cancelled in the transport's call, and the manager has
\* been disconnected by the task its finally clause scheduled
C37_Witness ==
    \E t \in Tasks :
        /\ config.disconnect_mode
        /\ ret[t] = Raised("CancelledError", "async_execute")
        /\ \A u \in AllTasks : stack[u] = <<>>
        /\ last_op \in Disconnectors
        /\ ~state.connected

\* task t has just been cancelled
Cancelled(t) == last_op' = "cancel" /\ stack[t] # <<>> /\ stack'[t] = <<>>

\* the update of task u has just returned to its caller
UpdateReturned(u) ==
    /\ last_op' = u
    /\ Len(stack[u]) = 1
    /\ stack[u][1].fn = "async_update"
    /\ stack[u][1].pc = "rel"
    /\ stack[u][1].res.exc = None
    /\ stack'[u] = <<>>

\* C39: a task that is cancelled where it is suspended leaves the lock
\* released when it was the owner and untouched when it was waiting for it,
\* and an update of another task that returns afterwards leaves the lock
\* free and the manager without an error and connected (in disconnect mode,
\* where the session is opened for an execute, unless no command was due)
C39_CancelReleases ==
    /\ [][\A t \in Tasks :
              Cancelled(t) =>
                  IF _task = t
                  THEN _task' = None /\ _depth' = 0 /\ ~_locked'
                  ELSE UNCHANGED lock_vars]_vars
    /\ [](\A t \in Tasks : _task = t => stack[t] # <<>>)
    /\ [][\A t, u \in Tasks :
              (t # u /\ ret[t].exc = "CancelledError" /\ UpdateReturned(u)) =>
                  /\ _task' = None /\ _depth' = 0 /\ ~_locked'
                  /\ ~state'.error
                  /\ \/ state'.connected
                     \/ /\ config.disconnect_mode
                        /\ \A c \in Range(sensor_commands) : ~should_update(cmds[c], now)]_vars

\* the first task was cancelled in a call of the transport, as the owner of
\* the lock; the update of the second task has returned since
C39_Witness ==
    /\ ret["t1"].exc = "CancelledError"
    /\ ret["t1"].why \in {"async_ping", "async_connect", "async_execute", "async_disconnect"}
    /\ last_op = "t2"
    /\ stack["t2"] = <<>>
    /\ ret["t2"].exc = None
    /\ ~config.disconnect_mode
    /\ state.connected
    /\ ~state.error
    /\ _task = None

\* task t is in asyncio.Lock.acquire
Waiting(t) == stack[t] # <<>> /\ Top(t).pc = "acq" /\ NeedsMutex(t)

\* C40: again and again the lock is free and no task is waiting for it, so
\* every task that waits for the lock gets it (or is cancelled) and every
\* owner lets go of it; and a call the owner makes inside its operation does
\* not wait for the lock
C40_NoDeadlock ==
    /\ []<>(_task = None /\ \A t \in AllTasks : ~Waiting(t))
    /\ [](\A t \in AllTasks :
              (stack[t] # <<>> /\ Top(t).pc = "acq" /\ Len(stack[t]) > 1)
                  => Holds(t) /\ ~NeedsMutex(t) /\ CanAcquire(t))

\* a caller and the scheduled disconnect task wait for the lock while the
\* owner is in a call of the transport, four operations deep
C40_Witness ==
    \E t \in Tasks, u \in Tasks, d \in Disconnectors :
        /\ t # u
        /\ Holds(t) /\ InTransport(t) /\ _depth >= 4
        /\ Waiting(u)
        /\ Waiting(d)


====
